---- MODULE Spec2Model ----
(***************************************************************************)
(* State-machine model of the MultisigWallet template                      *)
(* (packages/contracts/stylus/templates/multisig/src/lib.rs).              *)
(*                                                                         *)
(* Storage fields are the variables.  Every public method is one action    *)
(* that runs the whole handler; execute_transaction is split at its        *)
(* external call into execute_transaction (guards, flag, call issued) and  *)
(* execute_return (the match on call_result), because the callee may       *)
(* re-enter the wallet while the call is in progress.  A handler that      *)
(* returns Err keeps the storage writes it made before the return, as the  *)
(* handler's code reads; a host that discards them reaches a subset of     *)
(* the states reached here.                                                *)
(*                                                                         *)
(* The Erc20Token, Erc721Nft and DAOGovernance templates (token, nft and   *)
(* governance under the same directory) are separate contracts.  The       *)
(* storage of each is one record whose fields are its storage fields, and  *)
(* each has a specification of its own (TokenSpec, NftSpec,                *)
(* GovernanceSpec) that starts with that contract deployed; in the         *)
(* wallet's specifications they are not deployed.  Their U256 arithmetic   *)
(* uses the `+` and `-` operators, which wrap; amounts are scaled to       *)
(* AmountBits bits.                                                        *)
(***************************************************************************)
EXTENDS Integers, Sequences, FiniteSets, TLC

VARIABLES
    owners,                  \* StorageVec<Address> owners
    is_owner,                \* StorageMap<Address, bool> is_owner
    required_confirmations,  \* StorageU256 required_confirmations
    transactions,            \* StorageVec<Transaction> transactions
    initialized,             \* StorageBool initialized
    stack,                   \* execute_transaction invocations inside their external call
    effect_count,            \* per tx id: external calls that returned Ok (observer)
    last,                    \* the method and result of the call that has just returned,
                             \* until its caller takes the result
    log,                     \* the events that call emitted (evm::log), in order
    returned,                \* the value in its Ok(value): <<>> for (), <<id>> for a U256
    erc20_token,             \* the storage of the Erc20Token template, a record of its fields
    erc721_nft,              \* the storage of the Erc721Nft template, a record of its fields
    erc721_burnt,            \* the token ids the NFT template has burnt (observer)
    dao_governance           \* the storage of the DAOGovernance template, a record of its fields

vars == <<owners, is_owner, required_confirmations, transactions, initialized,
          stack, effect_count, last, log, returned,
          erc20_token, erc721_nft, erc721_burnt, dao_governance>>

\* the storage of the other templates, which no method of the wallet touches
others == <<erc20_token, erc721_nft, erc721_burnt, dao_governance>>

storage == <<owners, is_owner, required_confirmations, transactions, initialized>>

(*************************** bounds and universes **************************)
\* transactions that may be submitted
MaxTx == 2
\* nesting depth of execute_transaction invocations
MaxDepth == 2

Zero == "zero"
Wallet == "wallet"
Users == {"u1", "u2"}
Address == {Zero, Wallet} \cup Users

TxIds == 0..MaxTx

\* The widths of usize and of U256, scaled down: the ids a call can carry are
\* 0..U256Max and those that fit a usize are 0..UsizeMax.
UsizeBits == 3
U256Bits == 6
UsizeMax == 2 ^ UsizeBits - 1
U256Max == 2 ^ U256Bits - 1

(*************************** results ***************************************)
Ok == "Ok"
NotAnOwner == "Not an owner"
OnlyWallet == "Only wallet can call this"
TxDoesNotExist == "Transaction does not exist"
TxAlreadyExecuted == "Transaction already executed"
TxNotConfirmed == "Transaction not confirmed"
TxAlreadyConfirmed == "Transaction already confirmed"
TxExecutionFailed == "Transaction execution failed"
InvalidDestination == "Invalid destination"
InvalidOwnerAddress == "Invalid owner address"
InvalidNewOwnerAddress == "Invalid new owner address"
DuplicateOwner == "Duplicate owner"
OwnerAlreadyExists == "Owner already exists"
OldOwnerDoesNotExist == "Old owner does not exist"
NewOwnerAlreadyExists == "New owner already exists"
CannotRemoveOwner == "Cannot remove owner: would break requirement"
InvalidRequired == "Invalid required confirmations"
OwnersRequired == "Owners required"
AlreadyInitialized == "Already initialized"
\* the call ends in a panic: it returns no error of the contract
Panic == "panic"

(*************************** events ****************************************)
\* An evm::log record: the event's name and its fields (those an event does not
\* have are Zero and 0).
Event(name, tx_id, a, b, n) ==
    [event |-> name, txId |-> tx_id, a |-> a, b |-> b, n |-> n]

OwnerAdded(owner) == Event("OwnerAdded", 0, owner, Zero, 0)
OwnerRemoved(owner) == Event("OwnerRemoved", 0, owner, Zero, 0)
RequirementChanged(required) == Event("RequirementChanged", 0, Zero, Zero, required)
TransactionSubmitted(tx_id, submitter, to, value) ==
    Event("TransactionSubmitted", tx_id, submitter, to, value)
TransactionConfirmed(tx_id, owner) == Event("TransactionConfirmed", tx_id, owner, Zero, 0)
ConfirmationRevoked(tx_id, owner) == Event("ConfirmationRevoked", tx_id, owner, Zero, 0)
TransactionExecuted(tx_id, executor) == Event("TransactionExecuted", tx_id, executor, Zero, 0)
\* TransactionFailed logged under the name of TransactionExecuted
TransactionFailed_as_executed(tx_id, executor) ==
    Event("TransactionExecuted", tx_id, executor, Zero, 0)

TransactionFailed(tx_id, executor) == Event("TransactionFailed", tx_id, executor, Zero, 0)
Deposit(sender, value) == Event("Deposit", 0, sender, Zero, value)

(*************************** calldata **************************************)
\* The payload of a transaction, as the call it encodes when sent to the wallet.
Payload(op, a, b, n) == [op |-> op, a |-> a, b |-> b, n |-> n]
NoData == Payload("none", Zero, Zero, 0)

\* The calls transactions to the wallet are submitted with.
WalletCalls ==
    {Payload("add_owner", "u1", Zero, 0),
     Payload("remove_owner", "u1", Zero, 0),
     Payload("replace_owner", "u2", "u1", 0),
     Payload("change_requirement", Zero, Zero, 2)}

\* The arguments submit_transaction is called with.
SubmitInputs ==
    {[to |-> Zero, value |-> 0, data |-> NoData],
     [to |-> "u2", value |-> 1, data |-> NoData]}
    \cup {[to |-> Wallet, value |-> 0, data |-> p] : p \in WalletCalls}

\* The arguments initialize is called with.
InitializeInputs ==
    {[owners |-> <<>>, required |-> 1],
     [owners |-> <<"u1", "u2">>, required |-> 0],
     [owners |-> <<"u1", "u2">>, required |-> 1],
     [owners |-> <<"u1", "u2">>, required |-> 2],
     [owners |-> <<"u1", "u2">>, required |-> 3],
     [owners |-> <<Zero, "u1">>, required |-> 1]}

\* msg::value() of the calls of deposit.
DepositValues == {1}

\* The arguments the owner management methods are called with.
OwnerCalls(op) == {p \in WalletCalls \cup {Payload(op, "u2", "u2", 3)} : p.op = op}

(*************************** helpers ***************************************)
Top == stack[Len(stack)]

Tx(tx_id) == transactions[tx_id + 1]

NoConfirmations == [a \in Address |-> FALSE]

Min(S) == CHOOSE x \in S : \A y \in S : x <= y

(*************************** internal helper methods ***********************)
require_owner(sender) ==
    IF ~is_owner[sender] THEN NotAnOwner ELSE Ok

\* require_wallet that accepts any owner as the caller
require_wallet_owner(sender) ==
    IF ~is_owner[sender] THEN NotAnOwner ELSE Ok

require_wallet(sender) ==
    IF sender # Wallet THEN OnlyWallet ELSE Ok

\* tx_id.to::<usize>(): the index when tx_id fits a usize; the conversion
\* panics when it does not.
to_usize(tx_id) ==
    IF tx_id <= UsizeMax THEN [index |-> tx_id, panics |-> FALSE]
    ELSE [index |-> 0, panics |-> TRUE]

get_transaction_ref(txs, tx_id) ==
    IF to_usize(tx_id).panics THEN Panic
    ELSE IF to_usize(tx_id).index >= Len(txs) THEN TxDoesNotExist
    ELSE Ok

\* require_not_executed without the test of the executed flag
require_not_executed_exists(txs, tx_id) ==
    get_transaction_ref(txs, tx_id)

require_not_executed(txs, tx_id) ==
    IF get_transaction_ref(txs, tx_id) # Ok THEN get_transaction_ref(txs, tx_id)
    ELSE IF txs[tx_id + 1].executed THEN TxAlreadyExecuted
    ELSE Ok

\* require_confirmed that is content with one confirmation less
require_confirmed_short(txs, tx_id) ==
    IF get_transaction_ref(txs, tx_id) # Ok THEN get_transaction_ref(txs, tx_id)
    ELSE IF txs[tx_id + 1].confirmation_count + 1 < required_confirmations
         THEN TxNotConfirmed
    ELSE Ok

\* require_confirmed that wants the confirmation of as many as there are owners
require_confirmed_all(txs, tx_id) ==
    IF get_transaction_ref(txs, tx_id) # Ok THEN get_transaction_ref(txs, tx_id)
    ELSE IF txs[tx_id + 1].confirmation_count < Len(owners) THEN TxNotConfirmed
    ELSE Ok

require_confirmed(txs, tx_id) ==
    IF get_transaction_ref(txs, tx_id) # Ok THEN get_transaction_ref(txs, tx_id)
    ELSE IF txs[tx_id + 1].confirmation_count < required_confirmations THEN TxNotConfirmed
    ELSE Ok

\* _confirm_transaction without the "already confirmed" test
confirm_result_again(sender, txs, tx_id) ==
    require_not_executed(txs, tx_id)

\* _confirm_transaction: its result on the transactions txs ...
confirm_result(sender, txs, tx_id) ==
    IF require_not_executed(txs, tx_id) # Ok THEN require_not_executed(txs, tx_id)
    ELSE IF txs[tx_id + 1].confirmations[sender] THEN TxAlreadyConfirmed
    ELSE Ok

\* _confirm_transaction that records the confirmation and does not count it
confirm_effect_flag_only(sender, txs, tx_id) ==
    [txs EXCEPT ![tx_id + 1].confirmations[sender] = TRUE]

\* _confirm_transaction that counts the confirmation and does not record it
confirm_effect_count_only(sender, txs, tx_id) ==
    [txs EXCEPT ![tx_id + 1].confirmation_count = @ + 1]

\* ... and the transactions it leaves when that result is Ok
\* _confirm_transaction that records the confirmation on every transaction
confirm_effect_every(sender, txs, tx_id) ==
    [i \in 1..Len(txs) |->
        [txs[i] EXCEPT !.confirmations[sender] = TRUE,
                       !.confirmation_count = @ + 1]]

confirm_effect(sender, txs, tx_id) ==
    [txs EXCEPT ![tx_id + 1].confirmations[sender] = TRUE,
                ![tx_id + 1].confirmation_count = @ + 1]

\* no result is waiting for its caller
NoCall == [op |-> "none", result |-> Ok]

(*************************** call context **********************************)
\* Who may call a method now.  With no execution in progress any user account
\* calls any method.  While the external call of an execute_transaction is in
\* progress the callee acts: a destination other than the wallet may call any
\* method any number of times as any contract account; the wallet itself runs
\* the one method its calldata names, with msg::sender() = the wallet.
MayCall(sender, payload) ==
    /\ last = NoCall
    /\ IF stack = <<>> THEN sender \in Users
       ELSE /\ Top.ret = "pending"
            /\ IF Top.destination = Wallet
               THEN sender = Wallet /\ payload = Top.data
               ELSE sender \in Users

Other(op) == Payload(op, Zero, Zero, 0)

\* The stack once a call made at its top has returned `result`: a wallet
\* callee's result is the result of the external call that ran it.
Deliver(stk, result) ==
    IF stk # <<>> /\ stk[Len(stk)].destination = Wallet
    THEN [stk EXCEPT ![Len(stk)].ret = IF result = Ok THEN "ok" ELSE "err"]
    ELSE stk

Completed(op, result) ==
    /\ last' = [op |-> op, result |-> result]
    /\ stack' = Deliver(stack, result)

\* the value of a method that returns Result<(), Vec<u8>>
Unit == <<>>

(*************************** initialize ************************************)
\* The "Add owners" loop: the owners and is_owner it leaves and the error it
\* stops at, if any.
RECURSIVE add_owners_loop(_, _, _)
add_owners_loop(list, os, io) ==
    IF list = <<>> THEN [owners |-> os, is_owner |-> io, err |-> Ok]
    ELSE IF Head(list) = Zero
         THEN [owners |-> os, is_owner |-> io, err |-> InvalidOwnerAddress]
    ELSE IF io[Head(list)]
         THEN [owners |-> os, is_owner |-> io, err |-> DuplicateOwner]
    ELSE add_owners_loop(Tail(list), Append(os, Head(list)),
                         [io EXCEPT ![Head(list)] = TRUE])

\* initialize without the "Already initialized" test
initialize_check_again(list, required) ==
    IF list = <<>> THEN OwnersRequired
    ELSE IF required = 0 \/ required > Len(list) THEN InvalidRequired
    ELSE Ok

initialize_check(list, required) ==
    IF initialized THEN AlreadyInitialized
    ELSE IF list = <<>> THEN OwnersRequired
    ELSE IF required = 0 \/ required > Len(list) THEN InvalidRequired
    ELSE Ok

initialize(sender, list, required) ==
    /\ MayCall(sender, Other("initialize"))
    /\ IF initialize_check(list, required) # Ok
       THEN /\ UNCHANGED storage
            /\ log' = <<>>
            /\ Completed("initialize", initialize_check(list, required))
       ELSE LET r == add_owners_loop(list, owners, is_owner) IN
            /\ owners' = r.owners
            /\ is_owner' = r.is_owner
            /\ IF r.err = Ok
               THEN required_confirmations' = required /\ initialized' = TRUE
               ELSE UNCHANGED <<required_confirmations, initialized>>
            /\ UNCHANGED transactions
            /\ log' = [i \in 1..(Len(r.owners) - Len(owners)) |->
                          OwnerAdded(r.owners[Len(owners) + i])]
                       \o (IF r.err = Ok THEN <<RequirementChanged(required)>> ELSE <<>>)
            /\ Completed("initialize", r.err)
    /\ returned' = Unit
    /\ UNCHANGED effect_count
    /\ UNCHANGED others

(*************************** submit / confirm / revoke *********************)
\* NewTx for a slot that keeps a count of one
NewTx_stale(to, value, data) ==
    [destination |-> to, value |-> value, data |-> data, executed |-> FALSE,
     confirmations |-> NoConfirmations, confirmation_count |-> 1]

NewTx(to, value, data) ==
    [destination |-> to, value |-> value, data |-> data, executed |-> FALSE,
     confirmations |-> NoConfirmations, confirmation_count |-> 0]

\* submit_transaction without the test of the destination
submit_check_any_destination(sender, to) ==
    require_owner(sender)

submit_check(sender, to) ==
    IF require_owner(sender) # Ok THEN require_owner(sender)
    ELSE IF to = Zero THEN InvalidDestination
    ELSE Ok

submit_transaction(sender, to, value, data) ==
    /\ MayCall(sender, Other("submit_transaction"))
    /\ submit_check(sender, to) = Ok => Len(transactions) < MaxTx
    /\ IF submit_check(sender, to) # Ok
       THEN /\ UNCHANGED <<transactions, effect_count>>
            /\ log' = <<>>
            /\ returned' = Unit
            /\ Completed("submit_transaction", submit_check(sender, to))
       ELSE LET tx_id == Len(transactions)
                grown == Append(transactions, NewTx(to, value, data))
                r == confirm_result(sender, grown, tx_id)
            IN /\ transactions' = IF r = Ok THEN confirm_effect(sender, grown, tx_id)
                                  ELSE grown
               /\ effect_count' = Append(effect_count, 0)
               /\ log' = <<TransactionSubmitted(tx_id, sender, to, value)>>
                          \o (IF r = Ok THEN <<TransactionConfirmed(tx_id, sender)>>
                              ELSE <<>>)
               /\ returned' = IF r = Ok THEN <<tx_id>> ELSE Unit
               /\ Completed("submit_transaction", r)
    /\ UNCHANGED <<owners, is_owner, required_confirmations, initialized>>
    /\ UNCHANGED others

confirm_check(sender, tx_id) ==
    IF require_owner(sender) # Ok THEN require_owner(sender)
    ELSE confirm_result(sender, transactions, tx_id)

confirm_transaction(sender, tx_id) ==
    /\ MayCall(sender, Other("confirm_transaction"))
    /\ transactions' = IF confirm_check(sender, tx_id) = Ok
                       THEN confirm_effect(sender, transactions, tx_id)
                       ELSE transactions
    /\ log' = IF confirm_check(sender, tx_id) = Ok
               THEN <<TransactionConfirmed(tx_id, sender)>> ELSE <<>>
    /\ Completed("confirm_transaction", confirm_check(sender, tx_id))
    /\ returned' = Unit
    /\ UNCHANGED <<owners, is_owner, required_confirmations, initialized, effect_count>>
    /\ UNCHANGED others

\* revoke_confirmation without the test of the caller's confirmation
revoke_check_unconfirmed(sender, tx_id) ==
    IF require_owner(sender) # Ok THEN require_owner(sender)
    ELSE require_not_executed(transactions, tx_id)

\* revoke_confirmation without the test of the executed flag
revoke_check_in_flight(sender, tx_id) ==
    IF require_owner(sender) # Ok THEN require_owner(sender)
    ELSE IF get_transaction_ref(transactions, tx_id) # Ok
         THEN get_transaction_ref(transactions, tx_id)
    ELSE IF ~Tx(tx_id).confirmations[sender] THEN TxNotConfirmed
    ELSE Ok

\* revoke_confirmation without the owner guard
revoke_check_anyone(sender, tx_id) ==
    IF require_not_executed(transactions, tx_id) # Ok
    THEN require_not_executed(transactions, tx_id)
    ELSE IF ~Tx(tx_id).confirmations[sender] THEN TxNotConfirmed
    ELSE Ok

revoke_check(sender, tx_id) ==
    IF require_owner(sender) # Ok THEN require_owner(sender)
    ELSE IF require_not_executed(transactions, tx_id) # Ok
         THEN require_not_executed(transactions, tx_id)
    ELSE IF ~Tx(tx_id).confirmations[sender] THEN TxNotConfirmed
    ELSE Ok

revoke_confirmation(sender, tx_id) ==
    /\ MayCall(sender, Other("revoke_confirmation"))
    /\ transactions' =
          IF revoke_check(sender, tx_id) = Ok
          THEN [transactions EXCEPT ![tx_id + 1].confirmations[sender] = FALSE,
                                    ![tx_id + 1].confirmation_count = @ - 1]
          ELSE transactions
    /\ log' = IF revoke_check(sender, tx_id) = Ok
               THEN <<ConfirmationRevoked(tx_id, sender)>> ELSE <<>>
    /\ Completed("revoke_confirmation", revoke_check(sender, tx_id))
    /\ returned' = Unit
    /\ UNCHANGED <<owners, is_owner, required_confirmations, initialized, effect_count>>
    /\ UNCHANGED others

(*************************** execute_transaction ***************************)
\* execute_transaction that only lets an owner who confirmed tx_id execute it
execute_check_confirmer(sender, tx_id) ==
    IF require_owner(sender) # Ok THEN require_owner(sender)
    ELSE IF require_not_executed(transactions, tx_id) # Ok
         THEN require_not_executed(transactions, tx_id)
    ELSE IF ~Tx(tx_id).confirmations[sender] THEN NotAnOwner
    ELSE require_confirmed(transactions, tx_id)

execute_check(sender, tx_id) ==
    IF require_owner(sender) # Ok THEN require_owner(sender)
    ELSE IF require_not_executed(transactions, tx_id) # Ok
         THEN require_not_executed(transactions, tx_id)
    ELSE require_confirmed(transactions, tx_id)

\* The invocation that is pushed when the external call is issued.
Frame(sender, tx_id) ==
    [tx_id |-> tx_id, executor |-> sender,
     destination |-> Tx(tx_id).destination, data |-> Tx(tx_id).data,
     ret |-> "pending"]

\* the flag left for after the external call
mark_executed_late(txs, tx_id) == txs

\* mark_executed that also clears the value it is about to send
mark_executed_spent(txs, tx_id) ==
    [txs EXCEPT ![tx_id + 1].executed = TRUE, ![tx_id + 1].value = 0]

\* The executed flag as it is when the external call is issued.
mark_executed(txs, tx_id) ==
    [txs EXCEPT ![tx_id + 1].executed = TRUE]

\* Up to the external call: the guards, then executed = true, then the call.
execute_transaction(sender, tx_id) ==
    /\ MayCall(sender, Other("execute_transaction"))
    /\ execute_check(sender, tx_id) = Ok => Len(stack) < MaxDepth
    /\ IF execute_check(sender, tx_id) # Ok
       THEN /\ UNCHANGED transactions
            /\ log' = <<>>
            /\ returned' = Unit
            /\ Completed("execute_transaction", execute_check(sender, tx_id))
       ELSE /\ transactions' = mark_executed(transactions, tx_id)
            /\ stack' = Append(stack, Frame(sender, tx_id))
            /\ UNCHANGED <<last, log, returned>>
    /\ UNCHANGED <<owners, is_owner, required_confirmations, initialized, effect_count>>
    /\ UNCHANGED others

\* The result of the external call of the invocation at the top of the stack:
\* that of the method the wallet ran when the destination is the wallet and the
\* calldata names one, anything the callee decides otherwise.
CallResults ==
    IF Top.destination = Wallet /\ Top.data # NoData
    THEN IF Top.ret = "pending" THEN {} ELSE {Top.ret = "ok"}
    ELSE BOOLEAN

\* match call_result with the reset of the flag in both arms
on_call_result_reset(txs, tx_id, call_ok) ==
    [txs EXCEPT ![tx_id + 1].executed = FALSE]

\* match call_result without the reset of the flag in the Err arm
on_call_result_keep(txs, tx_id, call_ok) == txs

\* match call_result: the transactions each arm leaves
\* match call_result with an Err arm that clears the flag of every transaction
on_call_result_all(txs, tx_id, call_ok) ==
    IF call_ok THEN txs
    ELSE [i \in 1..Len(txs) |-> [txs[i] EXCEPT !.executed = FALSE]]

on_call_result(txs, tx_id, call_ok) ==
    IF call_ok THEN txs
    ELSE [txs EXCEPT ![tx_id + 1].executed = FALSE]

\* From the return of the external call to the end of the handler.
execute_return(call_ok) ==
    /\ last = NoCall
    /\ stack # <<>>
    /\ call_ok \in CallResults
    /\ transactions' = on_call_result(transactions, Top.tx_id, call_ok)
    /\ effect_count' = IF call_ok /\ effect_count[Top.tx_id + 1] < 2
                       THEN [effect_count EXCEPT ![Top.tx_id + 1] = @ + 1]
                       ELSE effect_count
    /\ last' = [op |-> "execute_transaction",
                result |-> IF call_ok THEN Ok ELSE TxExecutionFailed]
    /\ log' = IF call_ok THEN <<TransactionExecuted(Top.tx_id, Top.executor)>>
               ELSE <<TransactionFailed(Top.tx_id, Top.executor)>>
    /\ returned' = Unit
    /\ stack' = Deliver(SubSeq(stack, 1, Len(stack) - 1),
                        IF call_ok THEN Ok ELSE TxExecutionFailed)
    /\ UNCHANGED <<owners, is_owner, required_confirmations, initialized>>
    /\ UNCHANGED others

(*************************** owner management ******************************)
\* add_owner without the "Owner already exists" test
add_owner_check_no_dup(sender, owner) ==
    IF require_wallet(sender) # Ok THEN require_wallet(sender)
    ELSE IF owner = Zero THEN InvalidOwnerAddress
    ELSE Ok

\* add_owner without the test for the zero address
add_owner_check_zero(sender, owner) ==
    IF require_wallet(sender) # Ok THEN require_wallet(sender)
    ELSE IF is_owner[owner] THEN OwnerAlreadyExists
    ELSE Ok

add_owner_check(sender, owner) ==
    IF require_wallet(sender) # Ok THEN require_wallet(sender)
    ELSE IF owner = Zero THEN InvalidOwnerAddress
    ELSE IF is_owner[owner] THEN OwnerAlreadyExists
    ELSE Ok

add_owner(sender, owner) ==
    /\ MayCall(sender, Payload("add_owner", owner, Zero, 0))
    /\ IF add_owner_check(sender, owner) = Ok
       THEN /\ owners' = Append(owners, owner)
            /\ is_owner' = [is_owner EXCEPT ![owner] = TRUE]
       ELSE UNCHANGED <<owners, is_owner>>
    /\ log' = IF add_owner_check(sender, owner) = Ok
               THEN <<OwnerAdded(owner)>> ELSE <<>>
    /\ Completed("add_owner", add_owner_check(sender, owner))
    /\ returned' = Unit
    /\ UNCHANGED <<required_confirmations, transactions, initialized, effect_count>>
    /\ UNCHANGED others

\* remove_owner with < for <= in the requirement test
remove_owner_check_lt(sender, owner) ==
    IF require_wallet(sender) # Ok THEN require_wallet(sender)
    ELSE IF ~is_owner[owner] THEN NotAnOwner
    ELSE IF Len(owners) < required_confirmations THEN CannotRemoveOwner
    ELSE Ok

\* remove_owner that refuses a removal down to exactly the requirement
remove_owner_check_strict(sender, owner) ==
    IF require_wallet(sender) # Ok THEN require_wallet(sender)
    ELSE IF ~is_owner[owner] THEN NotAnOwner
    ELSE IF Len(owners) <= required_confirmations + 1 THEN CannotRemoveOwner
    ELSE Ok

\* remove_owner without the test against the requirement
remove_owner_check_any(sender, owner) ==
    IF require_wallet(sender) # Ok THEN require_wallet(sender)
    ELSE IF ~is_owner[owner] THEN NotAnOwner
    ELSE Ok

remove_owner_check(sender, owner) ==
    IF require_wallet(sender) # Ok THEN require_wallet(sender)
    ELSE IF ~is_owner[owner] THEN NotAnOwner
    ELSE IF Len(owners) <= required_confirmations THEN CannotRemoveOwner
    ELSE Ok

\* "Find and remove owner": swap with the last element and pop.
swap_and_pop(os, owner) ==
    LET owner_count == Len(os)
        found == {i \in 1..owner_count : os[i] = owner}
    IN IF found = {} THEN os
       ELSE LET i == Min(found)
                swapped == IF i < owner_count
                           THEN [os EXCEPT ![i] = os[owner_count]]
                           ELSE os
            IN SubSeq(swapped, 1, owner_count - 1)

\* The owners and is_owner that the storage holds after each write of a
\* remove_owner that passed its guards, in the order of the writes: the slot of
\* owner overwritten with the last owner (when owner is not the last), the
\* pop, and is_owner[owner] cleared.
remove_owner_writes(os, io, owner) ==
    LET owner_count == Len(os)
        found == {i \in 1..owner_count : os[i] = owner}
        i == Min(found)
        swapped == [os EXCEPT ![i] = os[owner_count]]
        popped == SubSeq(swapped, 1, owner_count - 1)
        cleared == [io EXCEPT ![owner] = FALSE]
    IN IF found = {} THEN <<[owners |-> os, is_owner |-> cleared]>>
       ELSE (IF i < owner_count
             THEN <<[owners |-> swapped, is_owner |-> io]>> ELSE <<>>)
            \o <<[owners |-> popped, is_owner |-> io],
                 [owners |-> popped, is_owner |-> cleared]>>

remove_owner(sender, owner) ==
    /\ MayCall(sender, Payload("remove_owner", owner, Zero, 0))
    /\ IF remove_owner_check(sender, owner) = Ok
       THEN /\ owners' = swap_and_pop(owners, owner)
            /\ is_owner' = [is_owner EXCEPT ![owner] = FALSE]
       ELSE UNCHANGED <<owners, is_owner>>
    /\ log' = IF remove_owner_check(sender, owner) = Ok
               THEN <<OwnerRemoved(owner)>> ELSE <<>>
    /\ Completed("remove_owner", remove_owner_check(sender, owner))
    /\ returned' = Unit
    /\ UNCHANGED <<required_confirmations, transactions, initialized, effect_count>>
    /\ UNCHANGED others

\* replace_owner without the test for a zero new owner
replace_owner_check_no_zero(sender, old_owner, new_owner) ==
    IF require_wallet(sender) # Ok THEN require_wallet(sender)
    ELSE IF ~is_owner[old_owner] THEN OldOwnerDoesNotExist
    ELSE IF is_owner[new_owner] THEN NewOwnerAlreadyExists
    ELSE Ok

replace_owner_check(sender, old_owner, new_owner) ==
    IF require_wallet(sender) # Ok THEN require_wallet(sender)
    ELSE IF new_owner = Zero THEN InvalidNewOwnerAddress
    ELSE IF ~is_owner[old_owner] THEN OldOwnerDoesNotExist
    ELSE IF is_owner[new_owner] THEN NewOwnerAlreadyExists
    ELSE Ok

\* "Find and replace owner": the first slot holding old_owner gets new_owner.
find_and_replace(os, old_owner, new_owner) ==
    LET found == {i \in 1..Len(os) : os[i] = old_owner}
    IN IF found = {} THEN os ELSE [os EXCEPT ![Min(found)] = new_owner]

replace_owner(sender, old_owner, new_owner) ==
    /\ MayCall(sender, Payload("replace_owner", old_owner, new_owner, 0))
    /\ IF replace_owner_check(sender, old_owner, new_owner) = Ok
       THEN /\ owners' = find_and_replace(owners, old_owner, new_owner)
            /\ is_owner' = [is_owner EXCEPT ![old_owner] = FALSE, ![new_owner] = TRUE]
       ELSE UNCHANGED <<owners, is_owner>>
    /\ log' = IF replace_owner_check(sender, old_owner, new_owner) = Ok
               THEN <<OwnerRemoved(old_owner), OwnerAdded(new_owner)>> ELSE <<>>
    /\ Completed("replace_owner", replace_owner_check(sender, old_owner, new_owner))
    /\ returned' = Unit
    /\ UNCHANGED <<required_confirmations, transactions, initialized, effect_count>>
    /\ UNCHANGED others

\* change_requirement without the test for zero
change_requirement_check_zero(sender, required) ==
    IF require_wallet(sender) # Ok THEN require_wallet(sender)
    ELSE IF required > Len(owners) THEN InvalidRequired
    ELSE Ok

change_requirement_check(sender, required) ==
    IF require_wallet(sender) # Ok THEN require_wallet(sender)
    ELSE IF required = 0 \/ required > Len(owners) THEN InvalidRequired
    ELSE Ok

change_requirement(sender, required) ==
    /\ MayCall(sender, Payload("change_requirement", Zero, Zero, required))
    /\ required_confirmations' = IF change_requirement_check(sender, required) = Ok
                                 THEN required
                                 ELSE required_confirmations
    /\ log' = IF change_requirement_check(sender, required) = Ok
               THEN <<RequirementChanged(required)>> ELSE <<>>
    /\ Completed("change_requirement", change_requirement_check(sender, required))
    /\ returned' = Unit
    /\ UNCHANGED <<owners, is_owner, transactions, initialized, effect_count>>
    /\ UNCHANGED others

\* deposit that refuses a wallet that is not initialized
deposit_initialized(sender, value) ==
    /\ MayCall(sender, Other("deposit"))
    /\ log' = IF initialized THEN <<Deposit(sender, value)>> ELSE <<>>
    /\ Completed("deposit", IF initialized THEN Ok ELSE NotAnOwner)
    /\ returned' = Unit
    /\ UNCHANGED <<storage, effect_count>>
    /\ UNCHANGED others

deposit(sender, value) ==
    /\ MayCall(sender, Other("deposit"))
    /\ log' = <<Deposit(sender, value)>>
    /\ Completed("deposit", Ok)
    /\ returned' = Unit
    /\ UNCHANGED <<storage, effect_count>>
    /\ UNCHANGED others

(*************************** getters ***************************************)
\* A getter reads: it returns its value or the error of get_transaction_ref and
\* writes nothing.
Reads(sender, op, result, value) ==
    /\ MayCall(sender, Other(op))
    /\ Completed(op, result)
    /\ returned' = IF result = Ok THEN value ELSE Unit
    /\ log' = <<>>
    /\ UNCHANGED <<storage, effect_count>>
    /\ UNCHANGED others

get_transaction(sender, tx_id) ==
    LET result == get_transaction_ref(transactions, tx_id) IN
    Reads(sender, "get_transaction", result,
          IF result = Ok
          THEN <<Tx(tx_id).destination, Tx(tx_id).value, Tx(tx_id).data,
                 Tx(tx_id).executed, Tx(tx_id).confirmation_count>>
          ELSE Unit)

get_confirmation_count(sender, tx_id) ==
    LET result == get_transaction_ref(transactions, tx_id) IN
    Reads(sender, "get_confirmation_count", result,
          IF result = Ok THEN <<Tx(tx_id).confirmation_count>> ELSE Unit)

is_confirmed_by(sender, tx_id, owner) ==
    LET result == get_transaction_ref(transactions, tx_id) IN
    Reads(sender, "is_confirmed_by", result,
          IF result = Ok THEN <<Tx(tx_id).confirmations[owner]>> ELSE Unit)

\* The caller takes the result of the call that has just returned.
take_result ==
    /\ last # NoCall
    /\ last' = NoCall
    /\ log' = <<>>
    /\ UNCHANGED <<storage, stack, effect_count>>
    /\ returned' = Unit
    /\ UNCHANGED others

(*************************** ERC-20 token template *************************)
\* U256 amounts of the token, scaled: AmountBits bits instead of 256.
AmountBits == 2
AmountMax == 2 ^ AmountBits - 1

\* ruint's `+` and `-` on U256 wrap
wrapping_add(x, y) == (x + y) % (2 ^ AmountBits)
wrapping_sub(x, y) == (x - y) % (2 ^ AmountBits)

Transfer(from, to, value) == Event("Transfer", 0, from, to, value)
Approval(owner, spender, value) == Event("Approval", 0, owner, spender, value)
Paused(account) == Event("Paused", 0, account, Zero, 0)
Unpaused(account) == Event("Unpaused", 0, account, Zero, 0)

\* the storage of a freshly deployed token: every slot zero
Erc20Deployed ==
    [name |-> "", symbol |-> "", decimals |-> 0,
     total_supply |-> 0,
     balances |-> [a \in Address |-> 0],
     allowances |-> [a \in Address |-> [b \in Address |-> 0]],
     initialized |-> FALSE, owner |-> Zero, paused |-> FALSE]

\* A call of a token method by `sender` that returns `result` (Ok carrying
\* `value`), leaves the storage `store` and emits `events`.
Erc20Call(sender, op, result, store, events, value) ==
    /\ last = NoCall
    /\ stack = <<>>
    /\ sender \in Users
    /\ erc20_token' = store
    /\ UNCHANGED <<erc721_nft, erc721_burnt, dao_governance>>
    /\ log' = events
    /\ last' = [op |-> op, result |-> result]
    /\ returned' = value
    /\ UNCHANGED <<storage, stack, effect_count>>

\* a token method that fails before it writes
Erc20Fails(sender, op, result) ==
    Erc20Call(sender, op, result, erc20_token, <<>>, Unit)

erc20_require_owner(sender) ==
    IF sender # erc20_token.owner THEN "Caller is not owner" ELSE Ok

erc20_require_not_paused ==
    IF erc20_token.paused THEN "Contract is paused" ELSE Ok

erc20_initialize(sender, name, symbol, decimals, total_supply, owner) ==
    IF erc20_token.initialized
    THEN Erc20Fails(sender, "initialize", "Already initialized")
    ELSE Erc20Call(sender, "initialize", Ok,
             [erc20_token EXCEPT !.name = name, !.symbol = symbol,
                                 !.decimals = decimals,
                                 !.total_supply = total_supply,
                                 !.balances[owner] = total_supply,
                                 !.owner = owner, !.paused = FALSE,
                                 !.initialized = TRUE],
             <<Transfer(Zero, owner, total_supply)>>, Unit)

\* balances after from_balance - amount is stored for `from` and then the
\* balance of `to` is read again and amount added to it
move_balance(balances, from, to, amount) ==
    LET debited == [balances EXCEPT ![from] = wrapping_sub(balances[from], amount)]
    IN  [debited EXCEPT ![to] = wrapping_add(debited[to], amount)]

erc20_transfer_check(sender, to, amount) ==
    IF erc20_require_not_paused # Ok THEN erc20_require_not_paused
    ELSE IF to = Zero THEN "Transfer to zero address"
    ELSE IF erc20_token.balances[sender] < amount THEN "Insufficient balance"
    ELSE Ok

erc20_transfer(sender, to, amount) ==
    IF erc20_transfer_check(sender, to, amount) # Ok
    THEN Erc20Fails(sender, "transfer", erc20_transfer_check(sender, to, amount))
    ELSE Erc20Call(sender, "transfer", Ok,
             [erc20_token EXCEPT
                 !.balances = move_balance(erc20_token.balances, sender, to, amount)],
             <<Transfer(sender, to, amount)>>, <<TRUE>>)

erc20_approve(sender, spender, amount) ==
    IF erc20_require_not_paused # Ok
    THEN Erc20Fails(sender, "approve", erc20_require_not_paused)
    ELSE IF spender = Zero
    THEN Erc20Fails(sender, "approve", "Approve to zero address")
    ELSE Erc20Call(sender, "approve", Ok,
             [erc20_token EXCEPT !.allowances[sender][spender] = amount],
             <<Approval(sender, spender, amount)>>, <<TRUE>>)

erc20_transfer_from_check(sender, from, to, amount) ==
    IF erc20_require_not_paused # Ok THEN erc20_require_not_paused
    ELSE IF to = Zero THEN "Transfer to zero address"
    ELSE IF erc20_token.allowances[from][sender] < amount THEN "Insufficient allowance"
    ELSE IF erc20_token.balances[from] < amount THEN "Insufficient balance"
    ELSE Ok

erc20_transfer_from(sender, from, to, amount) ==
    IF erc20_transfer_from_check(sender, from, to, amount) # Ok
    THEN Erc20Fails(sender, "transfer_from",
                    erc20_transfer_from_check(sender, from, to, amount))
    ELSE Erc20Call(sender, "transfer_from", Ok,
             [erc20_token EXCEPT
                 !.allowances[from][sender] =
                     wrapping_sub(erc20_token.allowances[from][sender], amount),
                 !.balances = move_balance(erc20_token.balances, from, to, amount)],
             <<Transfer(from, to, amount)>>, <<TRUE>>)

erc20_increase_allowance(sender, spender, added_value) ==
    IF erc20_require_not_paused # Ok
    THEN Erc20Fails(sender, "increase_allowance", erc20_require_not_paused)
    ELSE LET new_allowance ==
                 wrapping_add(erc20_token.allowances[sender][spender], added_value)
         IN  Erc20Call(sender, "increase_allowance", Ok,
                 [erc20_token EXCEPT !.allowances[sender][spender] = new_allowance],
                 <<Approval(sender, spender, new_allowance)>>, <<TRUE>>)

erc20_decrease_allowance(sender, spender, subtracted_value) ==
    IF erc20_require_not_paused # Ok
    THEN Erc20Fails(sender, "decrease_allowance", erc20_require_not_paused)
    ELSE IF erc20_token.allowances[sender][spender] < subtracted_value
    THEN Erc20Fails(sender, "decrease_allowance", "Allowance below zero")
    ELSE LET new_allowance ==
                 wrapping_sub(erc20_token.allowances[sender][spender], subtracted_value)
         IN  Erc20Call(sender, "decrease_allowance", Ok,
                 [erc20_token EXCEPT !.allowances[sender][spender] = new_allowance],
                 <<Approval(sender, spender, new_allowance)>>, <<TRUE>>)

erc20_mint_check(sender, to) ==
    IF erc20_require_owner(sender) # Ok THEN erc20_require_owner(sender)
    ELSE IF erc20_require_not_paused # Ok THEN erc20_require_not_paused
    ELSE IF to = Zero THEN "Mint to zero address"
    ELSE Ok

erc20_mint(sender, to, amount) ==
    IF erc20_mint_check(sender, to) # Ok
    THEN Erc20Fails(sender, "mint", erc20_mint_check(sender, to))
    ELSE Erc20Call(sender, "mint", Ok,
             [erc20_token EXCEPT
                 !.balances[to] = wrapping_add(erc20_token.balances[to], amount),
                 !.total_supply = wrapping_add(erc20_token.total_supply, amount)],
             <<Transfer(Zero, to, amount)>>, Unit)

erc20_burn(sender, amount) ==
    IF erc20_require_not_paused # Ok
    THEN Erc20Fails(sender, "burn", erc20_require_not_paused)
    ELSE IF erc20_token.balances[sender] < amount
    THEN Erc20Fails(sender, "burn", "Burn amount exceeds balance")
    ELSE Erc20Call(sender, "burn", Ok,
             [erc20_token EXCEPT
                 !.balances[sender] = wrapping_sub(erc20_token.balances[sender], amount),
                 !.total_supply = wrapping_sub(erc20_token.total_supply, amount)],
             <<Transfer(sender, Zero, amount)>>, Unit)

erc20_burn_from_check(sender, from, amount) ==
    IF erc20_require_not_paused # Ok THEN erc20_require_not_paused
    ELSE IF erc20_token.allowances[from][sender] < amount THEN "Burn amount exceeds allowance"
    ELSE IF erc20_token.balances[from] < amount THEN "Burn amount exceeds balance"
    ELSE Ok

erc20_burn_from(sender, from, amount) ==
    IF erc20_burn_from_check(sender, from, amount) # Ok
    THEN Erc20Fails(sender, "burn_from", erc20_burn_from_check(sender, from, amount))
    ELSE Erc20Call(sender, "burn_from", Ok,
             [erc20_token EXCEPT
                 !.allowances[from][sender] =
                     wrapping_sub(erc20_token.allowances[from][sender], amount),
                 !.balances[from] = wrapping_sub(erc20_token.balances[from], amount),
                 !.total_supply = wrapping_sub(erc20_token.total_supply, amount)],
             <<Transfer(from, Zero, amount)>>, Unit)

erc20_pause(sender) ==
    IF erc20_require_owner(sender) # Ok
    THEN Erc20Fails(sender, "pause", erc20_require_owner(sender))
    ELSE IF erc20_token.paused
    THEN Erc20Call(sender, "pause", Ok, erc20_token, <<>>, Unit)
    ELSE Erc20Call(sender, "pause", Ok, [erc20_token EXCEPT !.paused = TRUE],
                   <<Paused(sender)>>, Unit)

erc20_unpause(sender) ==
    IF erc20_require_owner(sender) # Ok
    THEN Erc20Fails(sender, "unpause", erc20_require_owner(sender))
    ELSE IF ~erc20_token.paused
    THEN Erc20Call(sender, "unpause", Ok, erc20_token, <<>>, Unit)
    ELSE Erc20Call(sender, "unpause", Ok, [erc20_token EXCEPT !.paused = FALSE],
                   <<Unpaused(sender)>>, Unit)

erc20_transfer_ownership(sender, new_owner) ==
    IF erc20_require_owner(sender) # Ok
    THEN Erc20Fails(sender, "transfer_ownership", erc20_require_owner(sender))
    ELSE IF new_owner = Zero
    THEN Erc20Fails(sender, "transfer_ownership", "New owner is zero address")
    ELSE Erc20Call(sender, "transfer_ownership", Ok,
                   [erc20_token EXCEPT !.owner = new_owner], <<>>, Unit)

\* total_supply(), balance_of(account) and allowance(owner, spender) read
erc20_total_supply(sender) ==
    Erc20Call(sender, "total_supply", Ok, erc20_token, <<>>,
              <<erc20_token.total_supply>>)

erc20_balance_of(sender, account) ==
    Erc20Call(sender, "balance_of", Ok, erc20_token, <<>>,
              <<erc20_token.balances[account]>>)

erc20_allowance(sender, owner, spender) ==
    Erc20Call(sender, "allowance", Ok, erc20_token, <<>>,
              <<erc20_token.allowances[owner][spender]>>)

(*************************** ERC-721 NFT template **************************)
\* the token ids a run mints: next_token_id starts at 1 and mint stops here
MaxMint == 3
TokenIds == 0..MaxMint

u256_add(x, y) == (x + y) % (2 ^ U256Bits)
u256_sub(x, y) == (x - y) % (2 ^ U256Bits)


Erc721Transfer(from, to, tokenId) == Event("Transfer", tokenId, from, to, 0)
Erc721Approval(owner, approved, tokenId) == Event("Approval", tokenId, owner, approved, 0)
ApprovalForAll(owner, operator, approved) ==
    Event("ApprovalForAll", 0, owner, operator, IF approved THEN 1 ELSE 0)

\* the storage of a freshly deployed collection: every slot zero
Erc721Deployed ==
    [name |-> "", symbol |-> "", base_uri |-> "",
     owners |-> [t \in TokenIds |-> Zero],
     token_approvals |-> [t \in TokenIds |-> Zero],
     operator_approvals |-> [a \in Address |-> [b \in Address |-> FALSE]],
     balances |-> [a \in Address |-> 0],
     all_tokens |-> <<>>,
     all_tokens_index |-> [t \in TokenIds |-> 0],
     owned_tokens |-> [a \in Address |-> <<>>],
     owned_tokens_index |-> [t \in TokenIds |-> 0],
     token_uris |-> [t \in TokenIds |-> ""],
     next_token_id |-> 0, max_supply |-> 0,
     initialized |-> FALSE, owner |-> Zero, paused |-> FALSE]

\* What a method leaves: the storage, its result, the events it emitted and
\* the value in Ok(value).
Outcome(store, result, events, value) ==
    [store |-> store, result |-> result, events |-> events, value |-> value]

\* index.to::<u32>(): panics when the index does not fit
to_u32(index) == to_usize(index)

erc721_require_owner(nft, sender) ==
    IF sender # nft.owner THEN "Caller is not owner" ELSE Ok

erc721_require_not_paused(nft) ==
    IF nft.paused THEN "Contract is paused" ELSE Ok

erc721_initialize(nft, name, symbol, base_uri, max_supply, owner) ==
    IF nft.initialized THEN Outcome(nft, "Already initialized", <<>>, Unit)
    ELSE Outcome([nft EXCEPT !.name = name, !.symbol = symbol, !.base_uri = base_uri,
                             !.next_token_id = 1, !.max_supply = max_supply,
                             !.owner = owner, !.paused = FALSE, !.initialized = TRUE],
                 Ok, <<>>, Unit)

\* _approve: always Ok
erc721__approve(nft, to, token_id) ==
    Outcome([nft EXCEPT !.token_approvals[token_id] = to], Ok,
            <<Erc721Approval(nft.owners[token_id], to, token_id)>>, Unit)

\* is_approved_or_owner: Ok(bool), or the error for a token with no owner
erc721_is_approved_or_owner(nft, spender, token_id) ==
    IF nft.owners[token_id] = Zero
    THEN Outcome(nft, "Token does not exist", <<>>, Unit)
    ELSE Outcome(nft, Ok, <<>>,
                 \/ spender = nft.owners[token_id]
                 \/ nft.token_approvals[token_id] = spender
                 \/ nft.operator_approvals[nft.owners[token_id]][spender])

erc721__add_token_to_all_tokens_enumeration(nft, token_id) ==
    LET index == Len(nft.all_tokens)
    IN  [nft EXCEPT !.all_tokens = Append(@, token_id),
                    !.all_tokens_index[token_id] = index]

\* swap the last token into the place of token_id, pop, clear the index of
\* token_id; the vector is indexed from 0 in the source and from 1 here
erc721__remove_token_from_all_tokens_enumeration(nft, token_id) ==
    LET last_token_index == Len(nft.all_tokens) - 1
        token_index == to_u32(nft.all_tokens_index[token_id]).index
        last_token_id == nft.all_tokens[last_token_index + 1]
        swapped == IF token_index # last_token_index
                   THEN [nft EXCEPT !.all_tokens[token_index + 1] = last_token_id,
                                    !.all_tokens_index[last_token_id] = token_index]
                   ELSE nft
    IN  [swapped EXCEPT !.all_tokens = SubSeq(@, 1, Len(@) - 1),
                        !.all_tokens_index[token_id] = 0]

erc721__add_token_to_owner_enumeration(nft, to, token_id) ==
    LET index == Len(nft.owned_tokens[to])
    IN  [nft EXCEPT !.owned_tokens[to] = Append(@, token_id),
                    !.owned_tokens_index[token_id] = index]

\* the removal that pops without telling the moved token its new index
erc721__remove_token_from_owner_enumeration_stale(nft, from, token_id) ==
    LET owned_tokens == nft.owned_tokens[from]
        last_token_index == Len(owned_tokens) - 1
        token_index == to_u32(nft.owned_tokens_index[token_id]).index
        last_token_id == owned_tokens[last_token_index + 1]
        swapped == IF token_index # last_token_index
                   THEN [nft EXCEPT !.owned_tokens[from][token_index + 1] = last_token_id]
                   ELSE nft
    IN  [swapped EXCEPT !.owned_tokens[from] = SubSeq(@, 1, Len(@) - 1),
                        !.owned_tokens_index[token_id] = 0]

erc721__remove_token_from_owner_enumeration(nft, from, token_id) ==
    LET owned_tokens == nft.owned_tokens[from]
        last_token_index == Len(owned_tokens) - 1
        token_index == to_u32(nft.owned_tokens_index[token_id]).index
        last_token_id == owned_tokens[last_token_index + 1]
        swapped == IF token_index # last_token_index
                   THEN [nft EXCEPT !.owned_tokens[from][token_index + 1] = last_token_id,
                                    !.owned_tokens_index[last_token_id] = token_index]
                   ELSE nft
    IN  [swapped EXCEPT !.owned_tokens[from] = SubSeq(@, 1, Len(@) - 1),
                        !.owned_tokens_index[token_id] = 0]

erc721__transfer(nft, from, to, token_id) ==
    IF nft.owners[token_id] # from THEN Outcome(nft, "Transfer from incorrect owner", <<>>, Unit)
    ELSE IF to = Zero THEN Outcome(nft, "Transfer to zero address", <<>>, Unit)
    ELSE LET approved == erc721__approve(nft, Zero, token_id)
             debited == [approved.store EXCEPT
                            !.balances[from] = u256_sub(@, 1)]
             credited == [debited EXCEPT !.balances[to] = u256_add(@, 1)]
             owned == [credited EXCEPT !.owners[token_id] = to]
             removed == erc721__remove_token_from_owner_enumeration(owned, from, token_id)
             added == erc721__add_token_to_owner_enumeration(removed, to, token_id)
         IN  Outcome(added, Ok,
                     approved.events \o <<Erc721Transfer(from, to, token_id)>>, Unit)

erc721__mint(nft, to, token_id) ==
    IF to = Zero THEN Outcome(nft, "Mint to zero address", <<>>, Unit)
    ELSE IF nft.owners[token_id] # Zero THEN Outcome(nft, "Token already minted", <<>>, Unit)
    ELSE LET credited == [nft EXCEPT !.balances[to] = u256_add(@, 1),
                                     !.owners[token_id] = to]
             listed == erc721__add_token_to_all_tokens_enumeration(credited, token_id)
             added == erc721__add_token_to_owner_enumeration(listed, to, token_id)
         IN  Outcome(added, Ok, <<Erc721Transfer(Zero, to, token_id)>>, Unit)

erc721__burn(nft, token_id) ==
    IF nft.owners[token_id] = Zero THEN Outcome(nft, "Token does not exist", <<>>, Unit)
    ELSE LET owner == nft.owners[token_id]
             approved == erc721__approve(nft, Zero, token_id)
             debited == [approved.store EXCEPT
                            !.balances[owner] = u256_sub(@, 1),
                            !.owners[token_id] = Zero,
                            !.token_uris[token_id] = ""]
             removed == erc721__remove_token_from_owner_enumeration(debited, owner, token_id)
             unlisted == erc721__remove_token_from_all_tokens_enumeration(removed, token_id)
         IN  Outcome(unlisted, Ok,
                     approved.events \o <<Erc721Transfer(owner, Zero, token_id)>>, Unit)

erc721_transfer_from(nft, sender, from, to, token_id) ==
    IF erc721_require_not_paused(nft) # Ok
    THEN Outcome(nft, erc721_require_not_paused(nft), <<>>, Unit)
    ELSE IF erc721_is_approved_or_owner(nft, sender, token_id).result # Ok
    THEN erc721_is_approved_or_owner(nft, sender, token_id)
    ELSE IF ~erc721_is_approved_or_owner(nft, sender, token_id).value
    THEN Outcome(nft, "Not authorized", <<>>, Unit)
    ELSE erc721__transfer(nft, from, to, token_id)

erc721_approve(nft, sender, to, token_id) ==
    IF erc721_require_not_paused(nft) # Ok
    THEN Outcome(nft, erc721_require_not_paused(nft), <<>>, Unit)
    ELSE IF nft.owners[token_id] = Zero
    THEN Outcome(nft, "Token does not exist", <<>>, Unit)
    ELSE IF to = nft.owners[token_id]
    THEN Outcome(nft, "Approve to current owner", <<>>, Unit)
    ELSE IF sender # nft.owners[token_id]
            /\ ~nft.operator_approvals[nft.owners[token_id]][sender]
    THEN Outcome(nft, "Not authorized", <<>>, Unit)
    ELSE erc721__approve(nft, to, token_id)

erc721_set_approval_for_all(nft, sender, operator, approved) ==
    IF erc721_require_not_paused(nft) # Ok
    THEN Outcome(nft, erc721_require_not_paused(nft), <<>>, Unit)
    ELSE IF operator = sender THEN Outcome(nft, "Approve to caller", <<>>, Unit)
    ELSE Outcome([nft EXCEPT !.operator_approvals[sender][operator] = approved], Ok,
                 <<ApprovalForAll(sender, operator, approved)>>, Unit)

\* mint: the checks, then next_token_id is advanced, then _mint
erc721_mint(nft, sender, to) ==
    IF erc721_require_owner(nft, sender) # Ok
    THEN Outcome(nft, erc721_require_owner(nft, sender), <<>>, Unit)
    ELSE IF erc721_require_not_paused(nft) # Ok
    THEN Outcome(nft, erc721_require_not_paused(nft), <<>>, Unit)
    ELSE IF to = Zero THEN Outcome(nft, "Mint to zero address", <<>>, Unit)
    ELSE IF nft.max_supply > 0 /\ Len(nft.all_tokens) >= nft.max_supply
    THEN Outcome(nft, "Max supply reached", <<>>, Unit)
    ELSE LET token_id == nft.next_token_id
             advanced == [nft EXCEPT !.next_token_id = u256_add(token_id, 1)]
             minted == erc721__mint(advanced, to, token_id)
         IN  IF minted.result # Ok THEN minted
             ELSE Outcome(minted.store, Ok, minted.events, <<token_id>>)

\* the loop of mint_batch: `quantity` calls of mint, stopped by the first Err;
\* value is the vector of the ids minted so far
RECURSIVE erc721_mint_loop(_, _, _, _)
erc721_mint_loop(so_far, sender, to, quantity) ==
    IF quantity = 0 THEN so_far
    ELSE LET one == erc721_mint(so_far.store, sender, to)
         IN  IF one.result # Ok
             THEN Outcome(one.store, one.result, so_far.events \o one.events, Unit)
             ELSE erc721_mint_loop(
                      Outcome(one.store, Ok, so_far.events \o one.events,
                              so_far.value \o one.value),
                      sender, to, quantity - 1)

erc721_mint_batch(nft, sender, to, quantity) ==
    IF erc721_require_owner(nft, sender) # Ok
    THEN Outcome(nft, erc721_require_owner(nft, sender), <<>>, Unit)
    ELSE IF erc721_require_not_paused(nft) # Ok
    THEN Outcome(nft, erc721_require_not_paused(nft), <<>>, Unit)
    ELSE IF to = Zero THEN Outcome(nft, "Mint to zero address", <<>>, Unit)
    ELSE IF to_u32(quantity).panics THEN Outcome(nft, Panic, <<>>, Unit)
    ELSE erc721_mint_loop(Outcome(nft, Ok, <<>>, <<>>), sender, to,
                          to_u32(quantity).index)

erc721_burn(nft, sender, token_id) ==
    IF erc721_require_not_paused(nft) # Ok
    THEN Outcome(nft, erc721_require_not_paused(nft), <<>>, Unit)
    ELSE IF erc721_is_approved_or_owner(nft, sender, token_id).result # Ok
    THEN erc721_is_approved_or_owner(nft, sender, token_id)
    ELSE IF ~erc721_is_approved_or_owner(nft, sender, token_id).value
    THEN Outcome(nft, "Not authorized", <<>>, Unit)
    ELSE erc721__burn(nft, token_id)

erc721_set_token_uri(nft, sender, token_id, uri) ==
    IF erc721_require_owner(nft, sender) # Ok
    THEN Outcome(nft, erc721_require_owner(nft, sender), <<>>, Unit)
    ELSE IF nft.owners[token_id] = Zero
    THEN Outcome(nft, "Token does not exist", <<>>, Unit)
    ELSE Outcome([nft EXCEPT !.token_uris[token_id] = uri], Ok, <<>>, Unit)

erc721_set_base_uri(nft, sender, base_uri) ==
    IF erc721_require_owner(nft, sender) # Ok
    THEN Outcome(nft, erc721_require_owner(nft, sender), <<>>, Unit)
    ELSE Outcome([nft EXCEPT !.base_uri = base_uri], Ok, <<>>, Unit)

erc721_pause(nft, sender) ==
    IF erc721_require_owner(nft, sender) # Ok
    THEN Outcome(nft, erc721_require_owner(nft, sender), <<>>, Unit)
    ELSE IF nft.paused THEN Outcome(nft, Ok, <<>>, Unit)
    ELSE Outcome([nft EXCEPT !.paused = TRUE], Ok, <<>>, Unit)

erc721_unpause(nft, sender) ==
    IF erc721_require_owner(nft, sender) # Ok
    THEN Outcome(nft, erc721_require_owner(nft, sender), <<>>, Unit)
    ELSE IF ~nft.paused THEN Outcome(nft, Ok, <<>>, Unit)
    ELSE Outcome([nft EXCEPT !.paused = FALSE], Ok, <<>>, Unit)

erc721_transfer_ownership(nft, sender, new_owner) ==
    IF erc721_require_owner(nft, sender) # Ok
    THEN Outcome(nft, erc721_require_owner(nft, sender), <<>>, Unit)
    ELSE IF new_owner = Zero THEN Outcome(nft, "New owner is zero address", <<>>, Unit)
    ELSE Outcome([nft EXCEPT !.owner = new_owner], Ok, <<>>, Unit)

erc721_total_supply(nft) ==
    Outcome(nft, Ok, <<>>, <<Len(nft.all_tokens)>>)

erc721_balance_of(nft, owner) ==
    IF owner = Zero THEN Outcome(nft, "Query for zero address", <<>>, Unit)
    ELSE Outcome(nft, Ok, <<>>, <<nft.balances[owner]>>)

erc721_owner_of(nft, token_id) ==
    IF nft.owners[token_id] = Zero THEN Outcome(nft, "Token does not exist", <<>>, Unit)
    ELSE Outcome(nft, Ok, <<>>, <<nft.owners[token_id]>>)

erc721_token_by_index(nft, index) ==
    IF to_u32(index).panics THEN Outcome(nft, Panic, <<>>, Unit)
    ELSE IF to_u32(index).index >= Len(nft.all_tokens)
    THEN Outcome(nft, "Index out of bounds", <<>>, Unit)
    ELSE Outcome(nft, Ok, <<>>, <<nft.all_tokens[to_u32(index).index + 1]>>)

erc721_token_of_owner_by_index(nft, owner, index) ==
    IF to_u32(index).panics THEN Outcome(nft, Panic, <<>>, Unit)
    ELSE IF to_u32(index).index >= Len(nft.owned_tokens[owner])
    THEN Outcome(nft, "Index out of bounds", <<>>, Unit)
    ELSE Outcome(nft, Ok, <<>>, <<nft.owned_tokens[owner][to_u32(index).index + 1]>>)

\* A call of an NFT method by `sender` with the outcome `out`; the observer
\* erc721_burnt gains the ids whose owner the call cleared.
Erc721Call(sender, op, out) ==
    /\ last = NoCall
    /\ stack = <<>>
    /\ sender \in Users
    /\ erc721_nft' = out.store
    /\ erc721_burnt' = erc721_burnt \cup
           {t \in TokenIds : erc721_nft.owners[t] # Zero /\ out.store.owners[t] = Zero}
    /\ log' = out.events
    /\ last' = [op |-> op, result |-> out.result]
    /\ returned' = out.value
    /\ UNCHANGED <<storage, stack, effect_count, erc20_token, dao_governance>>

(*************************** DAO governance template ***********************)
\* the largest quorum: 100% in hundredths of a percent
QuorumMax == 10000


MemberAdded(member, votingPower) == Event("MemberAdded", 0, member, Zero, votingPower)
MemberRemoved(member) == Event("MemberRemoved", 0, member, Zero, 0)
VotingPowerUpdated(member, oldPower, newPower) ==
    Event("VotingPowerUpdated", 0, member, Zero, <<oldPower, newPower>>)
VotingPeriodUpdated(oldPeriod, newPeriod) ==
    Event("VotingPeriodUpdated", 0, Zero, Zero, <<oldPeriod, newPeriod>>)
TimelockPeriodUpdated(oldPeriod, newPeriod) ==
    Event("TimelockPeriodUpdated", 0, Zero, Zero, <<oldPeriod, newPeriod>>)
QuorumUpdated(oldQuorum, newQuorum) ==
    Event("QuorumUpdated", 0, Zero, Zero, <<oldQuorum, newQuorum>>)

\* the storage of a freshly deployed governance contract: every slot zero
DaoDeployed ==
    [name |-> "", voting_period |-> 0, timelock_period |-> 0, quorum |-> 0,
     proposal_threshold |-> 0,
     proposals |-> <<>>, proposal_count |-> 0,
     voting_power |-> [a \in Address |-> 0],
     is_member |-> [a \in Address |-> FALSE],
     members |-> <<>>,
     total_voting_power |-> 0,
     initialized |-> FALSE, admin |-> Zero, paused |-> FALSE]

dao_require_admin(dao, sender) ==
    IF sender # dao.admin THEN "Caller is not admin" ELSE Ok

dao_require_not_paused(dao) ==
    IF dao.paused THEN "Contract is paused" ELSE Ok

dao_initialize(dao, name, voting_period, timelock_period, quorum, proposal_threshold, admin) ==
    IF dao.initialized THEN Outcome(dao, "Already initialized", <<>>, Unit)
    ELSE IF voting_period = 0 THEN Outcome(dao, "Invalid voting period", <<>>, Unit)
    ELSE IF quorum > QuorumMax THEN Outcome(dao, "Quorum too high (max 100%)", <<>>, Unit)
    ELSE IF admin = Zero THEN Outcome(dao, "Invalid admin address", <<>>, Unit)
    ELSE Outcome([dao EXCEPT !.name = name, !.voting_period = voting_period,
                             !.timelock_period = timelock_period, !.quorum = quorum,
                             !.proposal_threshold = proposal_threshold,
                             !.admin = admin, !.paused = FALSE,
                             !.proposal_count = 0, !.total_voting_power = 0,
                             !.initialized = TRUE],
                 Ok, <<>>, Unit)

dao_add_member_check(dao, sender, member, power) ==
    IF dao_require_admin(dao, sender) # Ok THEN dao_require_admin(dao, sender)
    ELSE IF dao_require_not_paused(dao) # Ok THEN dao_require_not_paused(dao)
    ELSE IF member = Zero THEN "Invalid member address"
    ELSE IF power = 0 THEN "Voting power must be positive"
    ELSE IF dao.is_member[member] THEN "Already a member"
    ELSE Ok

dao_add_member(dao, sender, member, power) ==
    IF dao_add_member_check(dao, sender, member, power) # Ok
    THEN Outcome(dao, dao_add_member_check(dao, sender, member, power), <<>>, Unit)
    ELSE Outcome([dao EXCEPT !.members = Append(@, member),
                             !.is_member[member] = TRUE,
                             !.voting_power[member] = power,
                             !.total_voting_power = wrapping_add(@, power)],
                 Ok, <<MemberAdded(member, power)>>, Unit)

\* the loop of remove_member: the first slot that holds member takes the last
\* member and the vector is popped; a vector without member is left alone
dao_remove_from_members(members, member) ==
    LET member_count == Len(members)
        found == {i \in 1..member_count : members[i] = member}
    IN  IF found = {} THEN members
        ELSE LET i == Min(found)
                 swapped == IF i - 1 < member_count - 1
                            THEN [members EXCEPT ![i] = members[member_count]]
                            ELSE members
             IN  SubSeq(swapped, 1, member_count - 1)

dao_remove_member_check(dao, sender, member) ==
    IF dao_require_admin(dao, sender) # Ok THEN dao_require_admin(dao, sender)
    ELSE IF dao_require_not_paused(dao) # Ok THEN dao_require_not_paused(dao)
    ELSE IF ~dao.is_member[member] THEN "Not a member"
    ELSE Ok

dao_remove_member(dao, sender, member) ==
    IF dao_remove_member_check(dao, sender, member) # Ok
    THEN Outcome(dao, dao_remove_member_check(dao, sender, member), <<>>, Unit)
    ELSE LET power == dao.voting_power[member]
         IN  Outcome([dao EXCEPT !.members = dao_remove_from_members(@, member),
                                 !.is_member[member] = FALSE,
                                 !.voting_power[member] = 0,
                                 !.total_voting_power = wrapping_sub(@, power)],
                     Ok, <<MemberRemoved(member)>>, Unit)

dao_update_voting_power_check(dao, sender, member, new_power) ==
    IF dao_require_admin(dao, sender) # Ok THEN dao_require_admin(dao, sender)
    ELSE IF dao_require_not_paused(dao) # Ok THEN dao_require_not_paused(dao)
    ELSE IF ~dao.is_member[member] THEN "Not a member"
    ELSE IF new_power = 0 THEN "Voting power must be positive"
    ELSE Ok

dao_update_voting_power(dao, sender, member, new_power) ==
    IF dao_update_voting_power_check(dao, sender, member, new_power) # Ok
    THEN Outcome(dao, dao_update_voting_power_check(dao, sender, member, new_power),
                 <<>>, Unit)
    ELSE LET old_power == dao.voting_power[member]
             total == dao.total_voting_power
         IN  Outcome([dao EXCEPT
                         !.voting_power[member] = new_power,
                         !.total_voting_power =
                             IF new_power > old_power
                             THEN wrapping_add(total, wrapping_sub(new_power, old_power))
                             ELSE wrapping_sub(total, wrapping_sub(old_power, new_power))],
                     Ok, <<VotingPowerUpdated(member, old_power, new_power)>>, Unit)

dao_set_voting_period(dao, sender, new_period) ==
    IF dao_require_admin(dao, sender) # Ok
    THEN Outcome(dao, dao_require_admin(dao, sender), <<>>, Unit)
    ELSE IF new_period = 0 THEN Outcome(dao, "Invalid voting period", <<>>, Unit)
    ELSE Outcome([dao EXCEPT !.voting_period = new_period], Ok,
                 <<VotingPeriodUpdated(dao.voting_period, new_period)>>, Unit)

dao_set_timelock_period(dao, sender, new_period) ==
    IF dao_require_admin(dao, sender) # Ok
    THEN Outcome(dao, dao_require_admin(dao, sender), <<>>, Unit)
    ELSE Outcome([dao EXCEPT !.timelock_period = new_period], Ok,
                 <<TimelockPeriodUpdated(dao.timelock_period, new_period)>>, Unit)

dao_set_quorum(dao, sender, new_quorum) ==
    IF dao_require_admin(dao, sender) # Ok
    THEN Outcome(dao, dao_require_admin(dao, sender), <<>>, Unit)
    ELSE IF new_quorum > QuorumMax THEN Outcome(dao, "Quorum too high (max 100%)", <<>>, Unit)
    ELSE Outcome([dao EXCEPT !.quorum = new_quorum], Ok,
                 <<QuorumUpdated(dao.quorum, new_quorum)>>, Unit)

dao_pause(dao, sender) ==
    IF dao_require_admin(dao, sender) # Ok
    THEN Outcome(dao, dao_require_admin(dao, sender), <<>>, Unit)
    ELSE IF dao.paused THEN Outcome(dao, Ok, <<>>, Unit)
    ELSE Outcome([dao EXCEPT !.paused = TRUE], Ok, <<>>, Unit)

dao_unpause(dao, sender) ==
    IF dao_require_admin(dao, sender) # Ok
    THEN Outcome(dao, dao_require_admin(dao, sender), <<>>, Unit)
    ELSE IF ~dao.paused THEN Outcome(dao, Ok, <<>>, Unit)
    ELSE Outcome([dao EXCEPT !.paused = FALSE], Ok, <<>>, Unit)

dao_transfer_admin(dao, sender, new_admin) ==
    IF dao_require_admin(dao, sender) # Ok
    THEN Outcome(dao, dao_require_admin(dao, sender), <<>>, Unit)
    ELSE IF new_admin = Zero THEN Outcome(dao, "Invalid admin address", <<>>, Unit)
    ELSE Outcome([dao EXCEPT !.admin = new_admin], Ok, <<>>, Unit)

dao_get_total_voting_power(dao) == Outcome(dao, Ok, <<>>, <<dao.total_voting_power>>)

dao_get_voting_power(dao, account) == Outcome(dao, Ok, <<>>, <<dao.voting_power[account]>>)

dao_is_member(dao, account) == Outcome(dao, Ok, <<>>, <<dao.is_member[account]>>)

dao_get_members(dao) == Outcome(dao, Ok, <<>>, <<dao.members>>)

dao_get_member_count(dao) == Outcome(dao, Ok, <<>>, <<Len(dao.members)>>)

\* a call of a governance method by `sender` with the outcome `out`
DaoCall(sender, op, out) ==
    /\ last = NoCall
    /\ stack = <<>>
    /\ sender \in Users
    /\ dao_governance' = out.store
    /\ log' = out.events
    /\ last' = [op |-> op, result |-> out.result]
    /\ returned' = out.value
    /\ UNCHANGED <<storage, stack, effect_count, erc20_token, erc721_nft, erc721_burnt>>

(*************************** specification *********************************)
\* a wallet just deployed
WalletDeployed ==
    /\ owners = <<>>
    /\ is_owner = [a \in Address |-> FALSE]
    /\ required_confirmations = 0
    /\ transactions = <<>>
    /\ initialized = FALSE
    /\ stack = <<>>
    /\ effect_count = <<>>
    /\ last = NoCall
    /\ log = <<>>
    /\ returned = Unit

\* the storage variable of a template that is not deployed
NotDeployed == "not deployed"

\* the wallet is deployed and the other templates are not
Init ==
    /\ WalletDeployed
    /\ erc20_token = NotDeployed
    /\ erc721_nft = NotDeployed
    /\ erc721_burnt = {}
    /\ dao_governance = NotDeployed

Senders == Users \cup {Wallet}

Next ==
    \/ \E s \in Senders, i \in InitializeInputs : initialize(s, i.owners, i.required)
    \/ \E s \in Senders, i \in SubmitInputs : submit_transaction(s, i.to, i.value, i.data)
    \/ \E s \in Senders, id \in TxIds : confirm_transaction(s, id)
    \/ \E s \in Senders, id \in TxIds : revoke_confirmation(s, id)
    \/ \E s \in Senders, id \in TxIds : execute_transaction(s, id)
    \/ \E ok \in BOOLEAN : execute_return(ok)
    \/ \E s \in Senders, p \in OwnerCalls("add_owner") : add_owner(s, p.a)
    \/ \E s \in Senders, p \in OwnerCalls("remove_owner") : remove_owner(s, p.a)
    \/ \E s \in Senders, p \in OwnerCalls("replace_owner") : replace_owner(s, p.a, p.b)
    \/ \E s \in Senders, p \in OwnerCalls("change_requirement") : change_requirement(s, p.n)
    \/ \E s \in Senders, value \in DepositValues : deposit(s, value)
    \/ take_result

Spec == Init /\ [][Next]_vars

(*************************** argument edges ********************************)
\* The owner management methods called by the wallet with the arguments at the
\* edges of their guards: every requirement from zero to one more than there
\* can be owners, and a replacement by the zero address.
EdgeInitializeInputs ==
    {[owners |-> <<"u1">>, required |-> 1],
     [owners |-> <<"u1", "u2">>, required |-> 2]}

EdgeRequirements == 0..3

EdgeReplaceCalls ==
    {Payload("replace_owner", "u2", Zero, 0),
     Payload("replace_owner", "u1", "u2", 0)}

EdgeSubmitInputs ==
    {[to |-> Wallet, value |-> 0, data |-> Payload("change_requirement", Zero, Zero, n)] :
        n \in EdgeRequirements}
    \cup {[to |-> Wallet, value |-> 0, data |-> p] : p \in EdgeReplaceCalls}

EdgeNext ==
    \/ \E s \in Senders, i \in EdgeInitializeInputs : initialize(s, i.owners, i.required)
    \/ \E s \in Senders, i \in EdgeSubmitInputs : submit_transaction(s, i.to, i.value, i.data)
    \/ \E s \in Senders, id \in TxIds : confirm_transaction(s, id)
    \/ \E s \in Senders, id \in TxIds : revoke_confirmation(s, id)
    \/ \E s \in Senders, id \in TxIds : execute_transaction(s, id)
    \/ \E ok \in BOOLEAN : execute_return(ok)
    \/ \E s \in Senders, p \in OwnerCalls("add_owner") : add_owner(s, p.a)
    \/ \E s \in Senders, p \in OwnerCalls("remove_owner") : remove_owner(s, p.a)
    \/ \E s \in Senders, p \in EdgeReplaceCalls : replace_owner(s, p.a, p.b)
    \/ \E s \in Senders, n \in EdgeRequirements : change_requirement(s, n)
    \/ \E s \in Senders, value \in DepositValues : deposit(s, value)
    \/ take_result

EdgeSpec == Init /\ [][EdgeNext]_vars

(*************************** requirement changes ***************************)
\* A wallet of two owners that starts with either requirement and changes it
\* by its own transactions, next to a transfer that waits for its quorum.
ThresholdInitializeInputs ==
    {[owners |-> <<"u1", "u2">>, required |-> 1],
     [owners |-> <<"u1", "u2">>, required |-> 2]}

ThresholdRequirements == 1..2

ThresholdSubmitInputs ==
    {[to |-> "u2", value |-> 1, data |-> NoData]}
    \cup {[to |-> Wallet, value |-> 0,
           data |-> Payload("change_requirement", Zero, Zero, n)] :
             n \in ThresholdRequirements}

ThresholdNext ==
    \/ \E s \in Senders, i \in ThresholdInitializeInputs :
          initialize(s, i.owners, i.required)
    \/ \E s \in Senders, i \in ThresholdSubmitInputs :
          submit_transaction(s, i.to, i.value, i.data)
    \/ \E s \in Senders, id \in TxIds : confirm_transaction(s, id)
    \/ \E s \in Senders, id \in TxIds : revoke_confirmation(s, id)
    \/ \E s \in Senders, id \in TxIds : execute_transaction(s, id)
    \/ \E ok \in BOOLEAN : execute_return(ok)
    \/ \E s \in Senders, n \in ThresholdRequirements : change_requirement(s, n)
    \/ take_result

ThresholdSpec == Init /\ [][ThresholdNext]_vars

(*************************** the zero address ******************************)
\* The three methods that can make an owner, each called with the zero
\* address as well: initialize with a list that starts with it, and add_owner
\* and replace_owner run by the wallet's own transactions.
ZeroInitializeInputs ==
    {[owners |-> <<"u1", "u2">>, required |-> 1],
     [owners |-> <<Zero, "u1">>, required |-> 1]}

ZeroAddCalls == {Payload("add_owner", Zero, Zero, 0)}

ZeroReplaceCalls ==
    {Payload("replace_owner", "u1", Zero, 0),
     Payload("replace_owner", Zero, "u1", 0)}

ZeroSubmitInputs ==
    {[to |-> Wallet, value |-> 0, data |-> p] : p \in ZeroAddCalls \cup ZeroReplaceCalls}

ZeroNext ==
    \/ \E s \in Senders, i \in ZeroInitializeInputs : initialize(s, i.owners, i.required)
    \/ \E s \in Senders, i \in ZeroSubmitInputs : submit_transaction(s, i.to, i.value, i.data)
    \/ \E s \in Senders, id \in TxIds : confirm_transaction(s, id)
    \/ \E s \in Senders, id \in TxIds : execute_transaction(s, id)
    \/ \E ok \in BOOLEAN : execute_return(ok)
    \/ \E s \in Senders, p \in ZeroAddCalls : add_owner(s, p.a)
    \/ \E s \in Senders, p \in ZeroReplaceCalls : replace_owner(s, p.a, p.b)
    \/ take_result

ZeroSpec == Init /\ [][ZeroNext]_vars

(*************************** owners that leave ******************************)
\* Owner u1 leaves by remove_owner or by replace_owner and comes back by
\* add_owner, with confirmations of its own on the transactions that do it.
ChurnInitializeInputs ==
    {[owners |-> <<"u1">>, required |-> 1],
     [owners |-> <<"u1", "u2">>, required |-> 1]}

ChurnCalls ==
    {Payload("remove_owner", "u1", Zero, 0),
     Payload("replace_owner", "u1", "u2", 0),
     Payload("add_owner", "u1", Zero, 0)}

ChurnSubmitInputs == {[to |-> Wallet, value |-> 0, data |-> p] : p \in ChurnCalls}

ChurnNext ==
    \/ \E s \in Senders, i \in ChurnInitializeInputs : initialize(s, i.owners, i.required)
    \/ \E s \in Senders, i \in ChurnSubmitInputs : submit_transaction(s, i.to, i.value, i.data)
    \/ \E s \in Senders, id \in TxIds : confirm_transaction(s, id)
    \/ \E s \in Senders, id \in TxIds : revoke_confirmation(s, id)
    \/ \E s \in Senders, id \in TxIds : execute_transaction(s, id)
    \/ \E ok \in BOOLEAN : execute_return(ok)
    \/ \E s \in Senders, p \in ChurnCalls : p.op = "add_owner" /\ add_owner(s, p.a)
    \/ \E s \in Senders, p \in ChurnCalls : p.op = "remove_owner" /\ remove_owner(s, p.a)
    \/ \E s \in Senders, p \in ChurnCalls : p.op = "replace_owner" /\ replace_owner(s, p.a, p.b)
    \/ take_result

ChurnSpec == Init /\ [][ChurnNext]_vars

(*************************** rejected owner lists **************************)
\* initialize called with an owner list that has a zero or a repeated address
\* after valid ones.
PartialInitializeInputs ==
    {[owners |-> <<"u1", "u2">>, required |-> 1],
     [owners |-> <<"u1", Zero>>, required |-> 1],
     [owners |-> <<"u2", "u1", "u2">>, required |-> 1]}

PartialNext ==
    \/ \E s \in Senders, i \in PartialInitializeInputs : initialize(s, i.owners, i.required)
    \/ \E s \in Senders, i \in SubmitInputs : submit_transaction(s, i.to, i.value, i.data)
    \/ \E s \in Senders, id \in TxIds : confirm_transaction(s, id)
    \/ \E s \in Senders, id \in TxIds : revoke_confirmation(s, id)
    \/ \E s \in Senders, id \in TxIds : execute_transaction(s, id)
    \/ \E ok \in BOOLEAN : execute_return(ok)
    \/ \E s \in Senders, p \in OwnerCalls("add_owner") : add_owner(s, p.a)
    \/ \E s \in Senders, p \in OwnerCalls("remove_owner") : remove_owner(s, p.a)
    \/ \E s \in Senders, p \in OwnerCalls("replace_owner") : replace_owner(s, p.a, p.b)
    \/ \E s \in Senders, p \in OwnerCalls("change_requirement") : change_requirement(s, p.n)
    \/ \E s \in Senders, value \in DepositValues : deposit(s, value)
    \/ take_result

PartialSpec == Init /\ [][PartialNext]_vars

\* The wallet with its getters and deposits: transfers are submitted,
\* confirmed and executed, and the getters are called with ids inside the
\* transactions, past their end, at the two ends of usize and at the end of
\* U256.
GetIds == TxIds \cup {UsizeMax, UsizeMax + 1, U256Max}

GetSubmitInputs == {[to |-> "u2", value |-> 1, data |-> NoData]}

\* msg::value() of the deposits: nothing, one, and the largest U256.
GetDepositValues == {0, 1, U256Max}

GetNext ==
    \/ \E s \in Senders, i \in EdgeInitializeInputs : initialize(s, i.owners, i.required)
    \/ \E s \in Senders, i \in GetSubmitInputs : submit_transaction(s, i.to, i.value, i.data)
    \/ \E s \in Senders, id \in TxIds : confirm_transaction(s, id)
    \/ \E s \in Senders, id \in TxIds : execute_transaction(s, id)
    \/ \E ok \in BOOLEAN : execute_return(ok)
    \/ \E s \in Senders, id \in GetIds : get_transaction(s, id)
    \/ \E s \in Senders, id \in GetIds : get_confirmation_count(s, id)
    \/ \E s \in Senders, id \in GetIds, owner \in Users : is_confirmed_by(s, id, owner)
    \/ \E s \in Senders, value \in GetDepositValues : deposit(s, value)
    \/ take_result

GetSpec == Init /\ [][GetNext]_vars

(*************************** the token on its own **************************)
\* initialize(name, symbol, decimals, total_supply, owner): the whole range of
\* the supply, an ordinary one, and the owner the method does not refuse
Erc20InitializeInputs ==
    {[total_supply |-> AmountMax, owner |-> "u1"],
     [total_supply |-> 2, owner |-> "u1"],
     [total_supply |-> 1, owner |-> Zero]}

Erc20Recipients == {Zero, "u1", "u2"}
Erc20Moved == {1, AmountMax}
Erc20Spenders == {Zero, "u2"}

TokenNext ==
    \/ \E s \in Users, i \in Erc20InitializeInputs :
           erc20_initialize(s, "Token", "TKN", 18, i.total_supply, i.owner)
    \/ \E s \in Users, to \in Erc20Recipients, n \in Erc20Moved : erc20_transfer(s, to, n)
    \/ \E s \in Users, sp \in Erc20Spenders, n \in Erc20Moved : erc20_approve(s, sp, n)
    \/ \E s \in Users, from \in Users, to \in Erc20Recipients, n \in Erc20Moved :
           erc20_transfer_from(s, from, to, n)
    \/ \E s \in Users, sp \in Erc20Spenders : erc20_increase_allowance(s, sp, 1)
    \/ \E s \in Users, sp \in Erc20Spenders : erc20_decrease_allowance(s, sp, 1)
    \/ \E s \in Users, to \in Erc20Recipients, n \in Erc20Moved : erc20_mint(s, to, n)
    \/ \E s \in Users, n \in Erc20Moved : erc20_burn(s, n)
    \/ \E s \in Users, from \in Users, n \in Erc20Moved : erc20_burn_from(s, from, n)
    \/ \E s \in Users : erc20_pause(s)
    \/ \E s \in Users : erc20_unpause(s)
    \/ \E s \in Users, a \in {Zero, "u2"} : erc20_transfer_ownership(s, a)
    \/ \E s \in Users : erc20_total_supply(s)
    \/ \E s \in Users, a \in Users : erc20_balance_of(s, a)
    \/ \E s \in Users, a \in Users : erc20_allowance(s, a, "u2")
    \/ take_result

\* the token is deployed next to the wallet
TokenInit ==
    /\ WalletDeployed
    /\ erc20_token = Erc20Deployed
    /\ erc721_nft = NotDeployed
    /\ erc721_burnt = {}
    /\ dao_governance = NotDeployed

TokenSpec == TokenInit /\ [][TokenNext]_vars

(*************************** the NFT collection on its own *****************)
\* initialize(name, symbol, base_uri, max_supply, owner): no cap, a cap below
\* MaxMint, and the owner the method does not refuse
Erc721InitializeInputs ==
    {[max_supply |-> 0, owner |-> "u1"],
     [max_supply |-> 2, owner |-> "u1"],
     [max_supply |-> 0, owner |-> Zero]}

Erc721Recipients == {Zero, "u1", "u2"}
\* mint_batch(to, quantity): two tokens, and a quantity no u32 holds
Erc721Quantities == {2, UsizeMax + 1}
\* token_by_index(index): the indexes of the vector, one past it, one no u32 holds
Erc721Indexes == {0, 1, UsizeMax + 1}

\* a run mints the ids up to MaxMint
MayMint(quantity) ==
    quantity <= UsizeMax => erc721_nft.next_token_id + quantity - 1 <= MaxMint

NftNext ==
    \/ \E s \in Users, i \in Erc721InitializeInputs :
           Erc721Call(s, "initialize",
               erc721_initialize(erc721_nft, "Collection", "NFT", "base/", i.max_supply, i.owner))
    \/ \E s \in Users, from \in Users, to \in Erc721Recipients, t \in TokenIds :
           Erc721Call(s, "transfer_from", erc721_transfer_from(erc721_nft, s, from, to, t))
    \/ \E s \in Users, t \in TokenIds :
           Erc721Call(s, "safe_transfer_from", erc721_transfer_from(erc721_nft, s, "u1", "u2", t))
    \/ \E s \in Users, t \in TokenIds :
           Erc721Call(s, "approve", erc721_approve(erc721_nft, s, "u2", t))
    \/ \E s \in Users, b \in BOOLEAN :
           Erc721Call(s, "set_approval_for_all",
               erc721_set_approval_for_all(erc721_nft, s, "u2", b))
    \/ \E s \in Users, to \in Erc721Recipients :
           MayMint(1) /\ Erc721Call(s, "mint", erc721_mint(erc721_nft, s, to))
    \/ \E s \in Users, to \in Erc721Recipients, q \in Erc721Quantities :
           MayMint(q) /\ Erc721Call(s, "mint_batch", erc721_mint_batch(erc721_nft, s, to, q))
    \/ \E s \in Users, t \in TokenIds :
           Erc721Call(s, "burn", erc721_burn(erc721_nft, s, t))
    \/ \E s \in Users, t \in {0, 1} :
           Erc721Call(s, "set_token_uri", erc721_set_token_uri(erc721_nft, s, t, "uri"))
    \/ \E s \in Users :
           Erc721Call(s, "set_base_uri", erc721_set_base_uri(erc721_nft, s, "base/"))
    \/ \E s \in Users : Erc721Call(s, "pause", erc721_pause(erc721_nft, s))
    \/ \E s \in Users : Erc721Call(s, "unpause", erc721_unpause(erc721_nft, s))
    \/ \E s \in Users, a \in {Zero, "u2"} :
           Erc721Call(s, "transfer_ownership", erc721_transfer_ownership(erc721_nft, s, a))
    \/ \E s \in Users : Erc721Call(s, "total_supply", erc721_total_supply(erc721_nft))
    \/ \E s \in Users, a \in {Zero, "u1"} :
           Erc721Call(s, "balance_of", erc721_balance_of(erc721_nft, a))
    \/ \E s \in Users, t \in {0, 1} :
           Erc721Call(s, "owner_of", erc721_owner_of(erc721_nft, t))
    \/ \E s \in Users, i \in Erc721Indexes :
           Erc721Call(s, "token_by_index", erc721_token_by_index(erc721_nft, i))
    \/ \E s \in Users, i \in Erc721Indexes :
           Erc721Call(s, "token_of_owner_by_index",
               erc721_token_of_owner_by_index(erc721_nft, "u1", i))
    \/ take_result

\* the collection is deployed next to the wallet
NftInit ==
    /\ WalletDeployed
    /\ erc20_token = NotDeployed
    /\ erc721_nft = Erc721Deployed
    /\ erc721_burnt = {}
    /\ dao_governance = NotDeployed

NftSpec == NftInit /\ [][NftNext]_vars

(*************************** the governance contract on its own ************)
\* initialize(name, voting_period, timelock_period, quorum, proposal_threshold,
\* admin): one input that passes and one for each refusal
DaoInitializeInputs ==
    {[voting_period |-> 1, quorum |-> 4000, admin |-> "u1"],
     [voting_period |-> 0, quorum |-> 4000, admin |-> "u1"],
     [voting_period |-> 1, quorum |-> QuorumMax + 1, admin |-> "u1"],
     [voting_period |-> 1, quorum |-> 4000, admin |-> Zero]}

\* voting powers: none, one, and the largest a U256 holds
DaoPowers == {0, 1, AmountMax}

GovernanceNext ==
    \/ \E s \in Users, i \in DaoInitializeInputs :
           DaoCall(s, "initialize",
               dao_initialize(dao_governance, "DAO", i.voting_period, 0, i.quorum, 1, i.admin))
    \/ \E s \in Users, m \in Address, p \in DaoPowers :
           DaoCall(s, "add_member", dao_add_member(dao_governance, s, m, p))
    \/ \E s \in Users, m \in Address :
           DaoCall(s, "remove_member", dao_remove_member(dao_governance, s, m))
    \/ \E s \in Users, m \in Address, p \in DaoPowers :
           DaoCall(s, "update_voting_power", dao_update_voting_power(dao_governance, s, m, p))
    \/ \E s \in Users, n \in {0, 1} :
           DaoCall(s, "set_voting_period", dao_set_voting_period(dao_governance, s, n))
    \/ \E s \in Users :
           DaoCall(s, "set_timelock_period", dao_set_timelock_period(dao_governance, s, 0))
    \/ \E s \in Users, q \in {4000, QuorumMax + 1} :
           DaoCall(s, "set_quorum", dao_set_quorum(dao_governance, s, q))
    \/ \E s \in Users : DaoCall(s, "pause", dao_pause(dao_governance, s))
    \/ \E s \in Users : DaoCall(s, "unpause", dao_unpause(dao_governance, s))
    \/ \E s \in Users, a \in {Zero, "u2"} :
           DaoCall(s, "transfer_admin", dao_transfer_admin(dao_governance, s, a))
    \/ \E s \in Users :
           DaoCall(s, "get_total_voting_power", dao_get_total_voting_power(dao_governance))
    \/ \E s \in Users, a \in Users :
           DaoCall(s, "get_voting_power", dao_get_voting_power(dao_governance, a))
    \/ \E s \in Users, a \in Users : DaoCall(s, "is_member", dao_is_member(dao_governance, a))
    \/ \E s \in Users : DaoCall(s, "get_members", dao_get_members(dao_governance))
    \/ \E s \in Users : DaoCall(s, "get_member_count", dao_get_member_count(dao_governance))
    \/ take_result

\* the governance contract is deployed next to the wallet
GovernanceInit ==
    /\ WalletDeployed
    /\ erc20_token = NotDeployed
    /\ erc721_nft = NotDeployed
    /\ erc721_burnt = {}
    /\ dao_governance = DaoDeployed

GovernanceSpec == GovernanceInit /\ [][GovernanceNext]_vars

(*************************** properties ************************************)
Range(q) == {q[i] : i \in 1..Len(q)}

Exists(tx_id) == tx_id < Len(transactions)

\* the external call of an execute_transaction(tx_id) is in progress
InFlight(tx_id) == \E i \in 1..Len(stack) : stack[i].tx_id = tx_id

\* the addresses with a true entry in the confirmations of tx_id
Confirmers(tx_id) == {a \in Address : Tx(tx_id).confirmations[a]}

\* execute_transaction(sender, tx_id) passed its guards and issued the external call
Issued(sender, tx_id) ==
    execute_transaction(sender, tx_id) /\ Len(stack') = Len(stack) + 1

OwnerMethods == {"add_owner", "remove_owner", "replace_owner", "change_requirement"}

\* this step is a call of one of the methods ops: it returns its result or, for
\* execute_transaction, issues the external call
Calls(ops) ==
    /\ last = NoCall
    /\ \/ last' # NoCall /\ last'.op \in ops
       \/ "execute_transaction" \in ops /\ Len(stack') = Len(stack) + 1

\* C1: while the external call of execute_transaction(id) is in progress the
\* executed flag of id is already true, and a nested execute_transaction(id)
\* is rejected, with "Transaction already executed" (AlreadyExecuted) when
\* its caller passes the owner guard, without issuing an external call and without
\* touching the transactions.
C1_FlagBeforeCall ==
    [][\A s \in Senders, id \in TxIds :
         (Calls({"execute_transaction"}) /\ InFlight(id) /\ execute_transaction(s, id)) =>
            /\ Tx(id).executed
            /\ last'.op = "execute_transaction"
            /\ last'.result = IF is_owner[s] THEN TxAlreadyExecuted ELSE NotAnOwner
            /\ Len(stack') = Len(stack)
            /\ UNCHANGED <<storage, effect_count>>]_vars

\* A nested execute_transaction on the one transaction whose call is in progress
\* has been rejected with AlreadyExecuted.
C1_Witness ==
    /\ stack # <<>>
    /\ last = [op |-> "execute_transaction", result |-> TxAlreadyExecuted]
    /\ \A id \in TxIds : (Exists(id) /\ Tx(id).executed) => InFlight(id)

\* C2: the external call of a transaction returns Ok at most once, over all
\* calls by all callers, nested ones included.
C2_EffectAtMostOnce ==
    \A i \in 1..Len(effect_count) : effect_count[i] <= 1

\* A second execute_transaction was tried on a transaction whose call had returned Ok.
C2_Witness ==
    /\ \E i \in 1..Len(effect_count) : effect_count[i] = 1
    /\ stack = <<>>
    /\ last = [op |-> "execute_transaction", result |-> TxAlreadyExecuted]

C4_QuorumOfCurrentOwners ==
    [][Calls({"execute_transaction"}) => \A s \in Senders, id \in TxIds :
         Issued(s, id) =>
            Cardinality({a \in Confirmers(id) : is_owner[a]}) >= required_confirmations]_vars

\* C5 (as claimed): confirmation_count is the number of current owners with a
\* true confirmation.
C5_CountOfCurrentOwners ==
    \A id \in TxIds :
        Exists(id) =>
            Tx(id).confirmation_count = Cardinality({a \in Confirmers(id) : is_owner[a]})

\* C6: confirmation_count is the number of addresses, owners or not, whose entry
\* in the transaction's confirmations is true.
C6_CountOfTrueEntries ==
    \A id \in TxIds :
        Exists(id) => Tx(id).confirmation_count = Cardinality(Confirmers(id))

\* A revoke has succeeded on a transaction that another address still confirms.
C6_Witness ==
    /\ last = [op |-> "revoke_confirmation", result |-> Ok]
    /\ \E id \in TxIds : Exists(id) /\ Tx(id).confirmation_count = 1

\* C7: once initialize has succeeded, 1 <= required_confirmations <= number of owners.
C7_RequirementInRange ==
    initialized =>
        (1 <= required_confirmations /\ required_confirmations <= Len(owners))

\* An owner has been removed, down to exactly the requirement.
C7_Witness ==
    /\ initialized
    /\ last = [op |-> "remove_owner", result |-> Ok]
    /\ required_confirmations = Len(owners)

\* C8: is_owner[a] is true exactly for the addresses in owners, and owners holds
\* no address twice.
C8_OwnersConsistent ==
    /\ \A a \in Address : is_owner[a] <=> a \in Range(owners)
    /\ Cardinality(Range(owners)) = Len(owners)

\* An owner has been added again after remove_owner moved the last owner into its slot.
C8_Witness ==
    /\ last = [op |-> "add_owner", result |-> Ok]
    /\ owners = <<"u2", "u1">>

\* C9: a call of add_owner, remove_owner, replace_owner or change_requirement by
\* anyone but the wallet returns "Only wallet can call this" (Unauthorized) and
\* leaves owners, is_owner and required_confirmations as they were; one that
\* returns Ok runs as the external call of an execute_transaction whose
\* destination is the wallet.
C9_OnlyWallet ==
    [][LET Refused == /\ last'.result = OnlyWallet
                      /\ UNCHANGED <<owners, is_owner, required_confirmations>>
       IN
       /\ Calls({"add_owner"}) =>
             \A s \in Users, a \in Address : add_owner(s, a) => Refused
       /\ Calls({"remove_owner"}) =>
             \A s \in Users, a \in Address : remove_owner(s, a) => Refused
       /\ Calls({"replace_owner"}) =>
             \A s \in Users, a \in Address, b \in Address :
                replace_owner(s, a, b) => Refused
       /\ Calls({"change_requirement"}) =>
             \A s \in Users, r \in 0..3 : change_requirement(s, r) => Refused
       /\ (Calls(OwnerMethods) /\ last'.result = Ok) =>
             /\ stack # <<>>
             /\ Top.destination = Wallet
             /\ Tx(Top.tx_id).executed]_vars

\* An owner has called remove_owner directly and been refused.
C9_Witness ==
    /\ last = [op |-> "remove_owner", result |-> OnlyWallet]
    /\ stack = <<>>
    /\ \E a \in Users : is_owner[a]

\* C10: once the external call of execute_transaction(id) has returned Ok,
\* executed stays true for id, and every execute_transaction,
\* confirm_transaction and revoke_confirmation on id by an owner returns
\* "Transaction already executed" (AlreadyExecuted) and changes nothing.
C10_ExecutedIsFinal ==
    [][\A id \in TxIds :
         (Exists(id) /\ effect_count[id + 1] >= 1) =>
            /\ Tx(id).executed
            /\ transactions'[id + 1].executed
            /\ Calls({"execute_transaction", "confirm_transaction", "revoke_confirmation"}) =>
               \A s \in Senders :
                  (is_owner[s] /\ (\/ execute_transaction(s, id)
                                   \/ confirm_transaction(s, id)
                                   \/ revoke_confirmation(s, id))) =>
                     /\ last'.result = TxAlreadyExecuted
                     /\ UNCHANGED <<storage, effect_count>>
                     /\ Len(stack') = Len(stack)]_vars

\* After a successful execution an owner's confirm_transaction was refused.
C10_Witness ==
    /\ \E i \in 1..Len(effect_count) : effect_count[i] = 1
    /\ stack = <<>>
    /\ last = [op |-> "confirm_transaction", result |-> TxAlreadyExecuted]

\* the external call of the execute_transaction at the top of the stack returns
\* in this step and the handler ends with `result`
Returns(result) ==
    /\ Len(stack') < Len(stack)
    /\ last' = [op |-> "execute_transaction", result |-> result]

\* C11: when the external call of execute_transaction(id) fails the call returns
\* "Transaction execution failed", id ends with executed = false and nothing
\* else changed, its confirmations and count are those it had when the call was
\* issued (no step changes them while the call is in progress), and
\* TransactionFailed(id, executor) is emitted; an owner's later
\* execute_transaction(id) with confirmation_count >= required_confirmations
\* issues the call again, and when that call succeeds the handler returns Ok
\* with executed = true and TransactionExecuted(id, executor) emitted.
C11_FailureReset ==
    [][/\ Len(stack') < Len(stack) =>
             \/ /\ Returns(TxExecutionFailed)
                /\ transactions' = [transactions EXCEPT ![Top.tx_id + 1].executed = FALSE]
                /\ ~transactions'[Top.tx_id + 1].executed
                /\ log' = <<TransactionFailed(Top.tx_id, Top.executor)>>
                /\ UNCHANGED <<owners, is_owner, required_confirmations, initialized>>
             \/ /\ Returns(Ok)
                /\ Tx(Top.tx_id).executed
                /\ log' = <<TransactionExecuted(Top.tx_id, Top.executor)>>
                /\ UNCHANGED storage
       /\ \A id \in TxIds :
             InFlight(id) =>
                /\ transactions'[id + 1].confirmations = Tx(id).confirmations
                /\ transactions'[id + 1].confirmation_count = Tx(id).confirmation_count
       /\ Calls({"execute_transaction"}) => \A s \in Senders, id \in TxIds :
             (/\ is_owner[s] /\ Exists(id) /\ ~Tx(id).executed
              /\ Tx(id).confirmation_count >= required_confirmations
              /\ execute_transaction(s, id)) =>
                /\ Len(stack') = Len(stack) + 1
                /\ transactions'[id + 1].executed]_vars

\* The external call of a transaction that meets the quorum has failed and the
\* handler has returned: the transaction can be executed again.
C11_Witness ==
    /\ last = [op |-> "execute_transaction", result |-> TxExecutionFailed]
    /\ stack = <<>>
    /\ \E id \in TxIds, a \in Users :
          /\ log = <<TransactionFailed(id, a)>>
          /\ Exists(id) /\ ~Tx(id).executed /\ is_owner[a]
          /\ Tx(id).confirmation_count >= required_confirmations

\* C12: a submit_transaction(to, value, data) that returns Ok was called by an
\* owner s, returns the number of transactions before the call as the id, leaves
\* the transactions there were as they were and one more, with the given
\* destination, value and data, executed = false, confirmations true for s and
\* for nobody else, and confirmation_count = 1.
C12_SubmitCreates ==
    [][Calls({"submit_transaction"}) => \A s \in Senders, i \in SubmitInputs :
         (submit_transaction(s, i.to, i.value, i.data) /\ last'.result = Ok) =>
            /\ is_owner[s]
            /\ returned' = <<Len(transactions)>>
            /\ Len(transactions') = Len(transactions) + 1
            /\ SubSeq(transactions', 1, Len(transactions)) = transactions
            /\ transactions'[Len(transactions) + 1] =
                  [destination |-> i.to, value |-> i.value, data |-> i.data,
                   executed |-> FALSE,
                   confirmations |-> [a \in Address |-> a = s],
                   confirmation_count |-> 1]]_vars

\* A second transaction has been submitted, by an owner who has not confirmed the first.
C12_Witness ==
    /\ last = [op |-> "submit_transaction", result |-> Ok]
    /\ returned = <<1>>
    /\ Len(transactions) = 2
    /\ \E s \in Users :
          /\ is_owner[s]
          /\ ~Tx(0).confirmations[s]
          /\ Tx(1).confirmations = [a \in Address |-> a = s]

\* C13: submit_transaction returns "Not an owner" (Unauthorized) when its caller
\* is not an owner, and "Invalid destination" (InvalidDestination) when an
\* owner calls it with the zero address as destination; in both cases no
\* transaction is appended, nothing in storage changes and nothing is logged.
C13_SubmitRejects ==
    [][Calls({"submit_transaction"}) => \A s \in Senders, i \in SubmitInputs :
         submit_transaction(s, i.to, i.value, i.data) =>
            /\ ~is_owner[s] => last'.result = NotAnOwner
            /\ (is_owner[s] /\ i.to = Zero) => last'.result = InvalidDestination
            /\ (~is_owner[s] \/ i.to = Zero) =>
                  /\ Len(transactions') = Len(transactions)
                  /\ UNCHANGED <<storage, effect_count>>
                  /\ log' = <<>>]_vars

\* An owner has submitted a transaction to the zero address, after one that was accepted.
C13_Witness ==
    /\ last = [op |-> "submit_transaction", result |-> InvalidDestination]
    /\ Len(transactions) = 1
    /\ \E s \in Users : is_owner[s]

C16_RevokeBreaksQuorum ==
    [][Calls({"revoke_confirmation"}) => \A c \in Senders, id \in TxIds :
         (/\ revoke_confirmation(c, id)
          /\ last'.result = Ok
          /\ required_confirmations = Len(owners)
          /\ \A o \in Range(owners) : Tx(id).confirmations[o]) =>
            transactions'[id + 1].confirmation_count < required_confirmations']_vars

\* C17: remove_owner(a) called by the wallet for an owner a returns Ok exactly
\* when the number of owners minus one is still >= required_confirmations, a
\* removal down to exactly the requirement included, and then a is no longer an
\* owner and the other owners are; otherwise it returns "Cannot remove owner:
\* would break requirement" (QuorumViolation) and leaves owners, is_owner and
\* required_confirmations as they were.
C17_RemoveOwner ==
    [][Calls({"remove_owner"}) => \A a \in Address :
         (is_owner[a] /\ remove_owner(Wallet, a)) =>
            IF Len(owners) - 1 >= required_confirmations
            THEN /\ last'.result = Ok
                 /\ Range(owners') = Range(owners) \ {a}
                 /\ Len(owners') = Len(owners) - 1
                 /\ is_owner' = [is_owner EXCEPT ![a] = FALSE]
                 /\ UNCHANGED <<required_confirmations, transactions, initialized>>
            ELSE /\ last'.result = CannotRemoveOwner
                 /\ UNCHANGED <<storage, effect_count>>
                 /\ log' = <<>>]_vars

\* The wallet has been refused the removal of one of as many owners as are required.
C17_Witness ==
    /\ last = [op |-> "remove_owner", result |-> CannotRemoveOwner]
    /\ stack # <<>>
    /\ Top.data.op = "remove_owner"
    /\ is_owner[Top.data.a]
    /\ Len(owners) = required_confirmations

\* C18: change_requirement(r) called by the wallet returns "Invalid required
\* confirmations" (InvalidThreshold) and changes nothing when r = 0 or r is more
\* than the number of owners; otherwise it returns Ok, sets
\* required_confirmations to r, changes nothing else and logs
\* RequirementChanged(r).
C18_ChangeRequirement ==
    [][Calls({"change_requirement"}) => \A r \in EdgeRequirements :
         change_requirement(Wallet, r) =>
            IF r = 0 \/ r > Len(owners)
            THEN /\ last'.result = InvalidRequired
                 /\ UNCHANGED <<storage, effect_count>>
                 /\ log' = <<>>
            ELSE /\ last'.result = Ok
                 /\ required_confirmations' = r
                 /\ UNCHANGED <<owners, is_owner, transactions, initialized>>
                 /\ log' = <<RequirementChanged(r)>>]_vars

\* The wallet has been refused a requirement of zero.
C18_Witness ==
    /\ last = [op |-> "change_requirement", result |-> InvalidRequired]
    /\ stack # <<>>
    /\ Top.data = Payload("change_requirement", Zero, Zero, 0)
    /\ initialized
    /\ required_confirmations >= 1

\* the registry after replace_owner(old_owner, new_owner) has succeeded
Replaced(old_owner, new_owner) ==
    /\ last'.result = Ok
    /\ Range(owners') = (Range(owners) \ {old_owner}) \cup {new_owner}
    /\ Len(owners') = Len(owners)
    /\ is_owner' = [is_owner EXCEPT ![old_owner] = FALSE, ![new_owner] = TRUE]
    /\ UNCHANGED <<required_confirmations, transactions, initialized>>

\* replace_owner has returned `result` and changed nothing
ReplaceRefused(result) ==
    /\ last'.result = result
    /\ UNCHANGED <<storage, effect_count>>
    /\ log' = <<>>

\* C19 (as claimed): replace_owner(old, new) called by the wallet returns "Old
\* owner does not exist" (UnknownOwner) whenever old is not an owner and "New
\* owner already exists" (DuplicateOwner) when new is an owner, the registry
\* unchanged, and a successful one leaves (owners \ {old}) \cup {new}.
C19_ReplaceOwnerAsClaimed ==
    [][Calls({"replace_owner"}) => \A old \in Address, new \in Address :
         replace_owner(Wallet, old, new) =>
            /\ ~is_owner[old] => ReplaceRefused(OldOwnerDoesNotExist)
            /\ (is_owner[old] /\ is_owner[new]) => ReplaceRefused(NewOwnerAlreadyExists)
            /\ last'.result = Ok => Replaced(old, new)]_vars

\* C19 (amended): replace_owner(old, new) called by the wallet returns "Invalid
\* new owner address" when new is the zero address, whether or not old is an
\* owner; for a nonzero new it returns "Old owner does not exist"
\* (UnknownOwner) when old is not an owner, "New owner already exists"
\* (DuplicateOwner) when old is an owner and new is one too, the registry
\* unchanged in all three cases; otherwise it returns Ok and the owner set
\* becomes (owners \ {old}) \cup {new}, with the number of owners and
\* required_confirmations unchanged.
C19_ReplaceOwner ==
    [][Calls({"replace_owner"}) => \A old \in Address, new \in Address :
         replace_owner(Wallet, old, new) =>
            IF new = Zero THEN ReplaceRefused(InvalidNewOwnerAddress)
            ELSE IF ~is_owner[old] THEN ReplaceRefused(OldOwnerDoesNotExist)
            ELSE IF is_owner[new] THEN ReplaceRefused(NewOwnerAlreadyExists)
            ELSE Replaced(old, new)]_vars

\* The wallet has been refused the replacement of an address that is not an
\* owner by the zero address.
C19_Witness ==
    /\ last = [op |-> "replace_owner", result |-> InvalidNewOwnerAddress]
    /\ stack # <<>>
    /\ Top.data.op = "replace_owner"
    /\ Top.data.b = Zero
    /\ ~is_owner[Top.data.a]
    /\ initialized

\* C20 (as claimed): a call of any public method that returns an error, other
\* than the "Transaction execution failed" of execute_transaction after its
\* external call, leaves owners, is_owner, required_confirmations, initialized
\* and the transactions as they were before the call.
C20_ErrorsLeaveState ==
    [][(/\ last = NoCall
        /\ last' # NoCall
        /\ last'.result # Ok
        /\ ~Returns(TxExecutionFailed)) => UNCHANGED storage]_vars

\* C21: initialize succeeds at most once: initialized, once true, stays true; an
\* initialize that returns Ok found it false; and every initialize called while
\* it is true, with any arguments, by any caller, nested in an external call or
\* not, returns "Already initialized" (AlreadyInitialized), changes nothing and
\* logs nothing.
C21_InitializeOnce ==
    [][/\ initialized => initialized'
       /\ (Calls({"initialize"}) /\ last'.result = Ok) => ~initialized
       /\ (Calls({"initialize"}) /\ initialized) =>
             /\ last'.result = AlreadyInitialized
             /\ UNCHANGED <<storage, effect_count>>
             /\ log' = <<>>]_vars

\* initialize has been called again from inside the external call of a
\* transaction, with the owners and the requirement changed since the first one.
C21_Witness ==
    /\ last = [op |-> "initialize", result |-> AlreadyInitialized]
    /\ initialized
    /\ stack # <<>>
    /\ Len(owners) = 1

\* C22: the transactions are append-only: no step removes one, a step adds at
\* most one, at the end, and the destination, value and data of every
\* transaction there is stay what they were at its submit.
C22_AppendOnly ==
    [][/\ Len(transactions') >= Len(transactions)
       /\ Len(transactions') <= Len(transactions) + 1
       /\ \A id \in TxIds :
             Exists(id) =>
                /\ transactions'[id + 1].destination = Tx(id).destination
                /\ transactions'[id + 1].value = Tx(id).value
                /\ transactions'[id + 1].data = Tx(id).data]_vars

\* A transfer of value has been executed and another transaction submitted
\* after it.
C22_Witness ==
    /\ Len(transactions) = 2
    /\ Tx(0).value = 1 /\ Tx(0).executed /\ effect_count[1] = 1
    /\ last = [op |-> "submit_transaction", result |-> Ok]

\* tx_id passes the guards execute_transaction puts before its external call
\* for a caller that is an owner
Executable(tx_id) ==
    /\ require_not_executed(transactions, tx_id) = Ok
    /\ require_confirmed(transactions, tx_id) = Ok

\* C23: execute_transaction decides against the required_confirmations current at
\* the call.  A change_requirement(r) that returns Ok changes no transaction,
\* and after it every unexecuted transaction is executable exactly when its
\* confirmation_count >= r: one that was short of the old requirement and has
\* confirmation_count >= r has become executable with no new confirmation, and
\* one that met the old requirement and has confirmation_count < r no longer
\* is.  An owner's execute_transaction on an unexecuted transaction issues the
\* call exactly when confirmation_count >= required_confirmations then.
C23_ThresholdAtCheck ==
    [][/\ (Calls({"change_requirement"}) /\ last'.result = Ok) =>
             /\ transactions' = transactions
             /\ \A id \in TxIds :
                   (Exists(id) /\ ~Tx(id).executed) =>
                      /\ Executable(id)' <=>
                            Tx(id).confirmation_count >= required_confirmations'
                      /\ (~Executable(id) /\ Executable(id)') =>
                            required_confirmations' < required_confirmations
                      /\ (Executable(id) /\ ~Executable(id)') =>
                            required_confirmations' > required_confirmations
       /\ Calls({"execute_transaction"}) => \A s \in Senders, id \in TxIds :
             (/\ is_owner[s] /\ Exists(id) /\ ~Tx(id).executed
              /\ execute_transaction(s, id)) =>
                (Len(stack') = Len(stack) + 1 <=> Executable(id))]_vars

\* The requirement has been raised by a transaction that one confirmation was
\* enough to execute, and another transaction with one confirmation is left
\* short of the new requirement.
C23_Witness ==
    /\ last = [op |-> "change_requirement", result |-> Ok]
    /\ stack # <<>>
    /\ Tx(Top.tx_id).confirmation_count = 1
    /\ required_confirmations = 2
    /\ \E id \in TxIds :
          /\ Exists(id) /\ ~Tx(id).executed
          /\ Tx(id).confirmation_count = 1
          /\ ~Executable(id)

\* the names of the events in q, in order
Names(q) == [i \in 1..Len(q) |-> q[i].event]

\* the storage holds what the event e reports
Reported(e) ==
    CASE e.event = "TransactionSubmitted" ->
            /\ Exists(e.txId)
            /\ Tx(e.txId).destination = e.b /\ Tx(e.txId).value = e.n
      [] e.event = "TransactionConfirmed" -> Tx(e.txId).confirmations[e.a]
      [] e.event = "ConfirmationRevoked" -> ~Tx(e.txId).confirmations[e.a]
      [] e.event = "TransactionExecuted" -> Tx(e.txId).executed
      [] e.event = "TransactionFailed" -> ~Tx(e.txId).executed
      [] e.event = "OwnerAdded" -> is_owner[e.a] /\ e.a \in Range(owners)
      [] e.event = "OwnerRemoved" -> ~is_owner[e.a] /\ e.a \notin Range(owners)
      [] e.event = "RequirementChanged" -> required_confirmations = e.n
      [] OTHER -> TRUE

\* C24: when a call returns, the storage already holds what each event it
\* logged reports, and the events are: for submit_transaction
\* TransactionSubmitted then TransactionConfirmed for the new id and the
\* submitter; for confirm_transaction TransactionConfirmed; for
\* revoke_confirmation ConfirmationRevoked; for an execute_transaction whose
\* call was issued TransactionExecuted when it returns Ok and TransactionFailed
\* when it returns "Transaction execution failed"; for add_owner OwnerAdded, for
\* remove_owner OwnerRemoved, for replace_owner OwnerRemoved then OwnerAdded;
\* for change_requirement RequirementChanged; for initialize OwnerAdded for
\* each owner then RequirementChanged.  A call that returns any other error
\* has logged nothing.  TransactionExecuted(id) is logged by the one call of id
\* that ever returned Ok.
C24_Events ==
    last # NoCall =>
       /\ \A i \in 1..Len(log) : Reported(log[i])
       /\ \A i \in 1..Len(log) :
             log[i].event = "TransactionExecuted" => effect_count[log[i].txId + 1] = 1
       /\ IF last.result = TxExecutionFailed
          THEN /\ last.op = "execute_transaction"
               /\ Names(log) = <<"TransactionFailed">>
          ELSE IF last.result # Ok THEN log = <<>>
          ELSE CASE last.op = "submit_transaction" ->
                       /\ Names(log) = <<"TransactionSubmitted", "TransactionConfirmed">>
                       /\ log[1].txId = Len(transactions) - 1
                       /\ log[2].txId = log[1].txId
                       /\ log[2].a = log[1].a
                 [] last.op = "confirm_transaction" ->
                       Names(log) = <<"TransactionConfirmed">>
                 [] last.op = "revoke_confirmation" ->
                       Names(log) = <<"ConfirmationRevoked">>
                 [] last.op = "execute_transaction" ->
                       Names(log) = <<"TransactionExecuted">>
                 [] last.op = "add_owner" -> Names(log) = <<"OwnerAdded">>
                 [] last.op = "remove_owner" -> Names(log) = <<"OwnerRemoved">>
                 [] last.op = "replace_owner" ->
                       Names(log) = <<"OwnerRemoved", "OwnerAdded">>
                 [] last.op = "change_requirement" ->
                       Names(log) = <<"RequirementChanged">>
                 [] last.op = "initialize" ->
                       /\ Len(log) = Len(owners) + 1
                       /\ \A i \in 1..Len(owners) : log[i] = OwnerAdded(owners[i])
                       /\ log[Len(log)].event = "RequirementChanged"
                 [] last.op = "deposit" -> Names(log) = <<"Deposit">>

\* An execute_transaction has returned "Transaction execution failed" after the
\* transaction before it was executed, and has logged TransactionFailed.
C24_Witness ==
    /\ last = [op |-> "execute_transaction", result |-> TxExecutionFailed]
    /\ log = <<TransactionFailed(1, "u1")>>
    /\ Tx(0).executed /\ effect_count[1] = 1
    /\ ~Tx(1).executed

\* C25: in every state, initialized or not, and for every caller and value that
\* can call it there, deposit returns Ok, logs Deposit(sender, value) and leaves
\* owners, is_owner, required_confirmations, initialized and every transaction
\* as they are.
C25_Deposit ==
    \A s \in Users, value \in GetDepositValues :
       MayCall(s, Other("deposit")) =>
          ENABLED (/\ deposit(s, value)
                   /\ last' = [op |-> "deposit", result |-> Ok]
                   /\ log' = <<Deposit(s, value)>>
                   /\ UNCHANGED <<storage, effect_count, stack>>)

\* A deposit of the largest value has returned Ok on a wallet that is not
\* initialized.
C25_Witness ==
    /\ last = [op |-> "deposit", result |-> Ok]
    /\ log = <<Deposit("u2", U256Max)>>
    /\ ~initialized /\ owners = <<>>

Getters == {"get_transaction", "get_confirmation_count", "is_confirmed_by"}

\* the getter op called with tx_id returns result and, when result is Ok, the
\* value the transaction holds for it; it writes nothing
Got(result, tx_id) ==
    /\ last'.result = result
    /\ UNCHANGED <<storage, effect_count>>
    /\ result = Ok =>
          \/ /\ last'.op = "get_transaction"
             /\ returned' = <<Tx(tx_id).destination, Tx(tx_id).value, Tx(tx_id).data,
                              Tx(tx_id).executed, Tx(tx_id).confirmation_count>>
          \/ /\ last'.op = "get_confirmation_count"
             /\ returned' = <<Tx(tx_id).confirmation_count>>
          \/ /\ last'.op = "is_confirmed_by"
             /\ \E owner \in Users : returned' = <<Tx(tx_id).confirmations[owner]>>

\* C26 as claimed: get_transaction, get_confirmation_count and is_confirmed_by
\* return "Transaction does not exist" (UnknownAction) for every id outside
\* [0, transaction count), whatever its magnitude, and for every id inside
\* return the stored fields; they change no state.
C26_GettersAsClaimed ==
    [][Calls(Getters) => \A s \in Senders, id \in GetIds :
         (\/ get_transaction(s, id)
          \/ get_confirmation_count(s, id)
          \/ \E owner \in Users : is_confirmed_by(s, id, owner)) =>
            IF Exists(id) THEN Got(Ok, id) ELSE Got(TxDoesNotExist, id)]_vars

\* the call made in this step by `sender` is refused with "Not an owner" and
\* nothing changes
Unauthorized ==
    /\ last'.result = NotAnOwner
    /\ UNCHANGED <<storage, effect_count>>
    /\ Len(stack') = Len(stack)
    /\ log' = <<>>

\* C27: a submit_transaction, confirm_transaction, revoke_confirmation or
\* execute_transaction by a caller that is no owner when it calls returns
\* "Not an owner" (Unauthorized), issues no external call and changes nothing,
\* so every one that succeeds has a caller that is an owner then; and every
\* owner, whether it confirmed the transaction or not, gets the external call
\* issued by execute_transaction on an unexecuted transaction with
\* confirmation_count >= required_confirmations.
C27_OwnersOnly ==
    [][/\ Calls({"submit_transaction"}) => \A s \in Senders, i \in SubmitInputs :
             (~is_owner[s] /\ submit_transaction(s, i.to, i.value, i.data)) =>
                Unauthorized
       /\ Calls({"confirm_transaction"}) => \A s \in Senders, id \in TxIds :
             (~is_owner[s] /\ confirm_transaction(s, id)) => Unauthorized
       /\ Calls({"revoke_confirmation"}) => \A s \in Senders, id \in TxIds :
             (~is_owner[s] /\ revoke_confirmation(s, id)) => Unauthorized
       /\ Calls({"execute_transaction"}) => \A s \in Senders, id \in TxIds :
             /\ (~is_owner[s] /\ execute_transaction(s, id)) => Unauthorized
             /\ (/\ is_owner[s] /\ Exists(id) /\ ~Tx(id).executed
                 /\ Tx(id).confirmation_count >= required_confirmations
                 /\ execute_transaction(s, id)) =>
                   /\ Len(stack') = Len(stack) + 1
                   /\ stack'[Len(stack')].executor = s]_vars

\* The external call of a transaction is in progress, issued for an owner that
\* has no confirmation on it, and a confirm_transaction by an account that is
\* no owner has been refused.
C27_Witness ==
    /\ stack # <<>>
    /\ Top.executor = "u2" /\ is_owner["u2"]
    /\ ~Tx(Top.tx_id).confirmations["u2"]
    /\ Tx(Top.tx_id).confirmations["u1"]
    /\ last = [op |-> "confirm_transaction", result |-> NotAnOwner]

\* C28: while the external call of execute_transaction(X) is in progress, every
\* confirm_transaction, revoke_confirmation and execute_transaction on X is
\* rejected ("Transaction already executed" for an owner, "Not an owner" for
\* any other caller) and changes nothing; the step that issues the call, every
\* step during it and the step in which it returns leave the confirmations and
\* the confirmation_count of X as the quorum check read them.
C28_NestedRejected ==
    [][/\ \A id \in TxIds : InFlight(id) =>
             /\ transactions'[id + 1].confirmations = Tx(id).confirmations
             /\ transactions'[id + 1].confirmation_count = Tx(id).confirmation_count
             /\ Calls({"confirm_transaction", "revoke_confirmation",
                       "execute_transaction"}) =>
                \A s \in Senders :
                   (\/ last'.op = "confirm_transaction" /\ confirm_transaction(s, id)
                    \/ last'.op = "revoke_confirmation" /\ revoke_confirmation(s, id)
                    \/ execute_transaction(s, id)) =>
                      /\ last'.result = IF is_owner[s] THEN TxAlreadyExecuted
                                        ELSE NotAnOwner
                      /\ UNCHANGED <<storage, effect_count>>
                      /\ Len(stack') = Len(stack)
       /\ Len(stack') = Len(stack) + 1 =>
             LET X == stack'[Len(stack')].tx_id IN
             /\ transactions'[X + 1].confirmations = Tx(X).confirmations
             /\ transactions'[X + 1].confirmation_count = Tx(X).confirmation_count
             /\ Tx(X).confirmation_count >= required_confirmations]_vars

\* During the external call of the only executed transaction, a
\* revoke_confirmation by an owner that confirmed it has been rejected.
C28_Witness ==
    /\ Len(stack) = 1
    /\ last = [op |-> "revoke_confirmation", result |-> TxAlreadyExecuted]
    /\ \A id \in TxIds : (Exists(id) /\ Tx(id).executed) => id = Top.tx_id
    /\ \A a \in Users : is_owner[a] /\ Tx(Top.tx_id).confirmations[a]

\* the invocations of execute_transaction(tx_id) whose call is in progress
Frames(tx_id) == {i \in 1..Len(stack) : stack[i].tx_id = tx_id}

\* C29: the executed flag of a transaction X goes from true to false only in the
\* step in which the external call of the execute_transaction(X) that set it
\* returns failure: that invocation is the only one of X in progress and the
\* innermost, and it returns "Transaction execution failed".  No step of a call
\* nested in another's external call clears the flag of that other
\* transaction, and a flag that is true with no call of X in progress, as
\* every flag seen true between top-level calls is, stays true.
C29_ResetOnlyOnFailure ==
    [][\A id \in TxIds : (Exists(id) /\ Tx(id).executed) =>
          /\ ~transactions'[id + 1].executed =>
                /\ Returns(TxExecutionFailed)
                /\ Top.tx_id = id
                /\ Frames(id) = {Len(stack)}
                /\ effect_count[id + 1] = 0
          /\ (Frames(id) = {} \/ Frames(id) # {Len(stack)}) =>
                transactions'[id + 1].executed
          /\ stack = <<>> => transactions'[id + 1].executed]_vars

\* A nested execute_transaction has returned failure and cleared its own flag
\* while the call of the transaction it ran in is still in progress with its
\* flag set.
C29_Witness ==
    /\ Len(stack) = 1
    /\ last = [op |-> "execute_transaction", result |-> TxExecutionFailed]
    /\ Tx(Top.tx_id).executed
    /\ \E id \in TxIds : Exists(id) /\ id # Top.tx_id /\ ~Tx(id).executed

\* the fields of tx_id other than those in `fields` are left as they are
Keeps(tx_id, fields) ==
    \A f \in DOMAIN Tx(tx_id) \ fields : transactions'[tx_id + 1][f] = Tx(tx_id)[f]

\* C30: a step that changes a field of a transaction is a confirm_transaction
\* or revoke_confirmation on that id that returns Ok, with the transaction
\* unexecuted, and changes its confirmations and confirmation_count only; or
\* the issue or the return of the external call of an execute_transaction on
\* that id, and changes its executed flag only.  initialize,
\* submit_transaction, add_owner, remove_owner, replace_owner,
\* change_requirement and deposit, and every call on another id, leave
\* every field of the transaction as it is.
C30_TransactionFrame ==
    [][\A id \in TxIds : Exists(id) =>
          /\ transactions'[id + 1] # Tx(id) =>
                \/ /\ Calls({"confirm_transaction"}) /\ last'.result = Ok
                   /\ \E s \in Senders : confirm_transaction(s, id)
                   /\ ~Tx(id).executed
                   /\ Keeps(id, {"confirmations", "confirmation_count"})
                \/ /\ Calls({"revoke_confirmation"}) /\ last'.result = Ok
                   /\ \E s \in Senders : revoke_confirmation(s, id)
                   /\ ~Tx(id).executed
                   /\ Keeps(id, {"confirmations", "confirmation_count"})
                \/ /\ Len(stack') = Len(stack) + 1
                   /\ stack'[Len(stack')].tx_id = id
                   /\ Keeps(id, {"executed"})
                \/ /\ Len(stack') < Len(stack)
                   /\ Top.tx_id = id
                   /\ Keeps(id, {"executed"})
          /\ Calls(OwnerMethods \cup {"initialize", "submit_transaction", "deposit"}) =>
                transactions'[id + 1] = Tx(id)]_vars

\* An owner has been removed during the external call of one transaction while
\* another holds that owner's confirmation still.
C30_Witness ==
    /\ last = [op |-> "remove_owner", result |-> Ok]
    /\ log = <<OwnerRemoved("u1")>>
    /\ \E id \in TxIds :
          /\ Exists(id) /\ id # Top.tx_id /\ ~Tx(id).executed
          /\ Tx(id).confirmations["u1"]
          /\ Tx(id).confirmation_count = 1

\* is_owner is true exactly for the addresses in the owners sequence os
SetEquality(os, io) == \A a \in Address : io[a] <=> a \in Range(os)

\* C31 as claimed: a remove_owner(a) that returns Ok leaves owners without a and
\* with every other owner exactly once, and after each of its writes, not
\* only after the last, is_owner is true exactly for the addresses in owners.
C31_SetEqualityAtEveryStep ==
    [][(Calls({"remove_owner"}) /\ last'.result = Ok) =>
          \A a \in Users : remove_owner(Wallet, a) =>
             LET writes == remove_owner_writes(owners, is_owner, a) IN
             /\ owners' = writes[Len(writes)].owners
             /\ is_owner' = writes[Len(writes)].is_owner
             /\ Range(owners') = Range(owners) \ {a}
             /\ Len(owners') = Len(owners) - 1
             /\ \A k \in 1..Len(writes) :
                   SetEquality(writes[k].owners, writes[k].is_owner)]_vars

\* the current owners with no confirmation on tx_id
Unconfirmed(tx_id) == {o \in Range(owners) : ~Tx(tx_id).confirmations[o]}

\* C32: once initialized, every unexecuted transaction has confirmation_count
\* plus the number of current owners that have not confirmed it >=
\* required_confirmations, and confirm_transaction by each of those owners
\* passes its guards: whatever failed executions, revocations, removals and
\* replacements of owners and changes of the requirement came before, the
\* current owners can bring the transaction to its quorum.
C32_QuorumReachable ==
    initialized =>
       \A id \in TxIds : (Exists(id) /\ ~Tx(id).executed) =>
          /\ Tx(id).confirmation_count + Cardinality(Unconfirmed(id))
                >= required_confirmations
          /\ \A o \in Unconfirmed(id) : confirm_check(o, id) = Ok

\* After the removal of an owner, the one owner left has revoked the only
\* confirmation of a transaction: its own confirmation is what the quorum needs.
C32_Witness ==
    /\ initialized /\ Len(owners) = 1 /\ required_confirmations = 1
    /\ last = [op |-> "revoke_confirmation", result |-> Ok]
    /\ \E id \in TxIds :
          /\ Exists(id) /\ ~Tx(id).executed
          /\ Tx(id).confirmation_count = 0
          /\ Cardinality(Unconfirmed(id)) = 1

\* C33 as claimed: while no initialize has succeeded owners and transactions are
\* empty, and every submit_transaction, confirm_transaction,
\* revoke_confirmation, execute_transaction, add_owner, remove_owner,
\* replace_owner and change_requirement fails and changes nothing; an
\* initialize that returns Ok leaves exactly the owners and the requirement it
\* was given and no transaction.
C33_NothingBeforeInitialize ==
    [][~initialized =>
          /\ owners = <<>> /\ transactions = <<>>
          /\ Calls(OwnerMethods \cup {"submit_transaction", "confirm_transaction",
                                     "revoke_confirmation", "execute_transaction"}) =>
                /\ last' # NoCall /\ last'.result # Ok
                /\ UNCHANGED <<storage, stack, effect_count>>
          /\ (Calls({"initialize"}) /\ last'.result = Ok) =>
                \A s \in Senders, i \in InitializeInputs \cup PartialInitializeInputs :
                   initialize(s, i.owners, i.required) =>
                      /\ owners' = i.owners
                      /\ \A a \in Address : is_owner'[a] <=> a \in Range(i.owners)
                      /\ required_confirmations' = i.required
                      /\ transactions' = <<>>]_vars

\* C34: the zero address is never an owner: is_owner[zero] is false and zero is
\* not in owners, in every state; add_owner(zero) and replace_owner(a, zero)
\* run by the wallet return "Invalid owner address" and "Invalid new owner
\* address", and an initialize that returns Ok has made no zero owner.
C34_ZeroNeverOwner ==
    /\ ~is_owner[Zero]
    /\ Zero \notin Range(owners)
    /\ (/\ last.op = "add_owner" /\ stack # <<>>
        /\ Top.data.op = "add_owner" /\ Top.data.a = Zero) =>
          last.result = InvalidOwnerAddress
    /\ (/\ last.op = "replace_owner" /\ stack # <<>>
        /\ Top.data.op = "replace_owner" /\ Top.data.b = Zero) =>
          last.result = InvalidNewOwnerAddress
    /\ (last.op = "initialize" /\ last.result = Ok) => initialized

\* The wallet has run add_owner(zero) and got "Invalid owner address".
C34_Witness ==
    /\ last = [op |-> "add_owner", result |-> InvalidOwnerAddress]
    /\ stack # <<>> /\ Top.destination = Wallet
    /\ Len(owners) = 2

\* C35: while an address a that has been removed or replaced is no owner, every
\* submit_transaction, confirm_transaction, revoke_confirmation and
\* execute_transaction by a returns "Not an owner" (Unauthorized) and changes
\* nothing, and every confirmation a has on a transaction stays true and
\* counted in confirmation_count over every step, the step that removes a
\* included: nobody can revoke it.
C35_RemovedOwner ==
    [][\A a \in Users :
          /\ ~is_owner[a] =>
                /\ Calls({"submit_transaction"}) => \A i \in ChurnSubmitInputs :
                      submit_transaction(a, i.to, i.value, i.data) => Unauthorized
                /\ Calls({"confirm_transaction"}) => \A id \in TxIds :
                      confirm_transaction(a, id) => Unauthorized
                /\ Calls({"revoke_confirmation"}) => \A id \in TxIds :
                      revoke_confirmation(a, id) => Unauthorized
                /\ Calls({"execute_transaction"}) => \A id \in TxIds :
                      execute_transaction(a, id) => Unauthorized
          /\ (~is_owner[a] \/ ~is_owner'[a]) =>
                \A id \in TxIds : (Exists(id) /\ Tx(id).confirmations[a]) =>
                   /\ transactions'[id + 1].confirmations[a]
                   /\ transactions'[id + 1].confirmation_count =
                         Cardinality({c \in Address : transactions'[id + 1].confirmations[c]})
                   /\ transactions'[id + 1].confirmation_count >= 1]_vars

\* u1 has been replaced by u2, and its revoke_confirmation on a transaction
\* that is not executed and holds its confirmation has been refused.
C35_Witness ==
    /\ last = [op |-> "revoke_confirmation", result |-> NotAnOwner]
    /\ owners = <<"u2">> /\ ~is_owner["u1"]
    /\ effect_count = <<1, 0>>
    /\ Tx(0).data.op = "replace_owner"
    /\ ~Tx(1).executed /\ Tx(1).confirmations["u1"]
    /\ Tx(1).confirmation_count = 1

(*************************** C36 *******************************************)
RECURSIVE SumOver(_, _)
SumOver(f, S) ==
    IF S = {} THEN 0
    ELSE LET a == CHOOSE x \in S : TRUE IN f[a] + SumOver(f, S \ {a})

\* a token method other than a getter returned
Erc20Returned(ops, ok) ==
    /\ last = NoCall
    /\ last' # NoCall
    /\ last'.op \in ops
    /\ ok <=> last'.result = Ok

Erc20Methods ==
    {"initialize", "transfer", "approve", "transfer_from", "increase_allowance",
     "decrease_allowance", "mint", "burn", "burn_from", "pause", "unpause",
     "transfer_ownership"}

\* the supply is the sum of the balances over all addresses
SupplyIsSum(token) ==
    token.initialized => token.total_supply = SumOver(token.balances, Address)

\* a successful transfer_from or burn_from lowers the allowance its sender has
\* from `from` by the amount of its Transfer event and no other allowance
AllowanceSpent ==
    Erc20Returned({"transfer_from", "burn_from"}, TRUE) =>
        \E spender \in Users :
            erc20_token'.allowances =
                [erc20_token.allowances EXCEPT
                    ![log'[1].a][spender] =
                        erc20_token.allowances[log'[1].a][spender] - log'[1].n]

\* a failed method changes neither balances, allowances nor total_supply
FailureWritesNothing ==
    Erc20Returned(Erc20Methods, FALSE) =>
        /\ erc20_token'.balances = erc20_token.balances
        /\ erc20_token'.allowances = erc20_token.allowances
        /\ erc20_token'.total_supply = erc20_token.total_supply

\* C36: once the token is initialized total_supply is the sum of the balances
\* over all addresses after every transfer, transfer_from, mint, burn and
\* burn_from; transfer_from and burn_from lower the spender's allowance by
\* exactly the amount moved; a failed operation changes neither balances,
\* allowances nor total_supply.
C36_SupplyIsSumOfBalances ==
    [][/\ SupplyIsSum(erc20_token')
       /\ AllowanceSpent
       /\ FailureWritesNothing]_vars

(*************************** C37 *******************************************)
\* the token ids that have an owner
Existing(nft) == {t \in TokenIds : nft.owners[t] # Zero}

\* all_tokens[all_tokens_index[t]] = t, the vector indexed from 0
ListedAtIndex(nft, t) ==
    /\ nft.all_tokens_index[t] < Len(nft.all_tokens)
    /\ nft.all_tokens[nft.all_tokens_index[t] + 1] = t

\* owned_tokens[owner(t)][owned_tokens_index[t]] = t
OwnedAtIndex(nft, t) ==
    /\ nft.owned_tokens_index[t] < Len(nft.owned_tokens[nft.owners[t]])
    /\ nft.owned_tokens[nft.owners[t]][nft.owned_tokens_index[t] + 1] = t

\* C37: in the NFT template every existing token t sits at all_tokens_index[t]
\* in all_tokens and at owned_tokens_index[t] in the list of its owner; for
\* every address a balances[a] is the length of owned_tokens[a] and every token
\* in that list is owned by a; all_tokens holds exactly the existing tokens,
\* each once; no existing token has an id that was burnt.
C37_Enumeration ==
    /\ \A t \in Existing(erc721_nft) :
           ListedAtIndex(erc721_nft, t) /\ OwnedAtIndex(erc721_nft, t)
    /\ \A a \in Address :
           /\ erc721_nft.balances[a] = Len(erc721_nft.owned_tokens[a])
           /\ \A i \in 1..Len(erc721_nft.owned_tokens[a]) :
                  erc721_nft.owners[erc721_nft.owned_tokens[a][i]] = a
    /\ Range(erc721_nft.all_tokens) = Existing(erc721_nft)
    /\ Len(erc721_nft.all_tokens) = Cardinality(Existing(erc721_nft))
    /\ erc721_burnt \cap Existing(erc721_nft) = {}
    /\ \A t \in Existing(erc721_nft) \cup erc721_burnt : t < erc721_nft.next_token_id

\* a transfer from u1 to u1 has just moved token 1 behind token 3 in the list
\* of u1, after token 2 was burnt and took the last place of all_tokens
C37_Witness ==
    /\ last = [op |-> "transfer_from", result |-> Ok]
    /\ log[2] = Erc721Transfer("u1", "u1", 1)
    /\ erc721_burnt = {2}
    /\ erc721_nft.all_tokens = <<1, 3>>
    /\ erc721_nft.owned_tokens["u1"] = <<3, 1>>
    /\ erc721_nft.balances["u1"] = 2

(*************************** C38 *******************************************)
\* how often a occurs in the members list
Occurrences(members, a) == Cardinality({i \in 1..Len(members) : members[i] = a})

RECURSIVE SumOfPowers(_, _)
SumOfPowers(dao, i) ==
    IF i = 0 THEN 0 ELSE dao.voting_power[dao.members[i]] + SumOfPowers(dao, i - 1)

\* total_voting_power is the sum of the voting power of the members
TotalIsSum(dao) == dao.total_voting_power = SumOfPowers(dao, Len(dao.members))

\* is_member[a] iff a occurs, once, in members; members have a positive voting
\* power and the others none
MembersAreListed(dao) ==
    \A a \in Address :
        /\ dao.is_member[a] <=> Occurrences(dao.members, a) = 1
        /\ Occurrences(dao.members, a) <= 1
        /\ dao.is_member[a] => dao.voting_power[a] > 0
        /\ ~dao.is_member[a] => dao.voting_power[a] = 0

\* add_member, remove_member and update_voting_power called while paused or
\* by another than the admin fail and leave the storage as it was
GuardedByAdminAndPause(dao) ==
    \A s \in Users, m \in Address, p \in DaoPowers :
        (dao.paused \/ s # dao.admin) =>
            /\ dao_add_member(dao, s, m, p).result \in {"Caller is not admin", "Contract is paused"}
            /\ dao_add_member(dao, s, m, p).store = dao
            /\ dao_remove_member(dao, s, m).result \in {"Caller is not admin", "Contract is paused"}
            /\ dao_remove_member(dao, s, m).store = dao
            /\ dao_update_voting_power(dao, s, m, p).result \in {"Caller is not admin", "Contract is paused"}
            /\ dao_update_voting_power(dao, s, m, p).store = dao

\* C38: in the governance template total_voting_power is the sum of
\* voting_power over the members list, is_member[a] holds iff a occurs exactly
\* once in members, members have voting power > 0 and non-members 0, after any
\* add_member, remove_member and update_voting_power; each of the three fails
\* without changing state while paused or when the caller is not the admin.
C38_VotingPower ==
    /\ TotalIsSum(dao_governance)
    /\ MembersAreListed(dao_governance)
    /\ GuardedByAdminAndPause(dao_governance)

(*************************** C39 *******************************************)
\* C39: the unsigned subtractions of the wallet do not underflow: whenever
\* revoke_confirmation passes its guards and reaches current_count - 1 the
\* confirmation_count is at least 1, and whenever remove_owner passes its
\* guards and reaches owner_count - 1 the owners vector holds the owner, so
\* owner_count is at least 1.
C39_NoUnderflow ==
    /\ \A s \in Senders, id \in TxIds :
           revoke_check(s, id) = Ok => Tx(id).confirmation_count >= 1
    /\ \A s \in Senders, a \in Address :
           remove_owner_check(s, a) = Ok => a \in Range(owners) /\ Len(owners) >= 1
    /\ \A id \in TxIds : Exists(id) => Tx(id).confirmation_count >= 0

\* remove_owner has just taken the last-but-one owner away, and a transaction
\* whose only confirmation was revoked is left with a count of 0
C39_Witness ==
    /\ last = [op |-> "remove_owner", result |-> Ok]
    /\ Len(owners) = 1
    /\ \E id \in TxIds :
           /\ Exists(id)
           /\ ~Tx(id).executed
           /\ Tx(id).confirmation_count = 0
           /\ \A a \in Address : ~Tx(id).confirmations[a]

====
